---- MODULE Spec2Model ----
(***************************************************************************)
(* Multiway betting state machine of LiveGTO (src/src/ui/simulate.js and   *)
(* src/src/engine/simulate.js).                                            *)
(*                                                                         *)
(* The hand state is the JavaScript object simState; it is modelled as one *)
(* record with the same field names, and every mw* function is an operator *)
(* from state records to state records, as in the source.                  *)
(*                                                                         *)
(* Chip amounts are exact fixed-point numbers: one tenth of a big blind is *)
(* Tenth units.  Tenth is a multiple of 60 and of 2^HalvingBits so that a  *)
(* pot split among 1..6 winners and a chain of x2.5 raises stay exact.     *)
(* Cards are not modelled: they reach the betting machine only through the *)
(* simulated villains' policy and through evaluate() at showdown, and both *)
(* are nondeterministic choices here.                                      *)
(***************************************************************************)
EXTENDS Integers, Sequences, FiniteSets, TLC

VARIABLES simState, pc, hands, resolved, estimated_range, observed,
          strategiesData, strategyTables, strategy, returned

vars == <<simState, pc, hands, resolved, estimated_range, observed,
          strategiesData, strategyTables, strategy, returned>>

\* the state of the betting machine, and the state of the range tracker
\* (a villain's estimated_range and the narrowing call last applied to it)
tableVars == <<simState, pc, hands, resolved>>
trackerVars == <<estimated_range, observed>>
\* the imported strategy document, the three strategy tables of postflop.js,
\* the distribution getStrategy returned last, and the value returned by
\* the function that was called last on it
strategyVars == <<strategiesData, strategyTables, strategy, returned>>

(***************************************************************************)
(* Bounds of the model.                                                    *)
(***************************************************************************)
MaxPlayers == 3
StartStack == 20
MaxHandValue == 2
HalvingBits == 5

(***************************************************************************)
(* Fixed-point amounts.                                                    *)
(***************************************************************************)
Tenth == 60 * (2 ^ HalvingBits)
BigBlind == 10 * Tenth

Min(a, b) == IF a <= b THEN a ELSE b
Max(a, b) == IF a >= b THEN a ELSE b

\* Math.round(x * 10) / 10 for x = pct per cent of the amount `units`:
\* rounded to the nearest tenth of a big blind, half up.
RoundToTenth(units, pct) ==
  ((units * pct + 50 * Tenth) \div (100 * Tenth)) * Tenth

OPEN_RAISE == 25 * Tenth
THREE_BET == 80 * Tenth
BET_SIZES == [bet_s |-> 33, bet_m |-> 66, bet_l |-> 100]
RAISE_PCT == 75

\* JavaScript `undefined`: generateMultiwayHand returns no opener_idx field.
UNDEFINED == -2
JsLess(a, b) == a # UNDEFINED /\ b # UNDEFINED /\ a < b

\* JavaScript `null`: the hero has no estimated_range, and narrowPreflop is
\* given no opener before the first raise.
null == "null"

POSITIONS_BY_COUNT ==
  [n \in 2..6 |->
     CASE n = 2 -> <<"SB", "BB">>
       [] n = 3 -> <<"BTN", "SB", "BB">>
       [] n = 4 -> <<"CO", "BTN", "SB", "BB">>
       [] n = 5 -> <<"HJ", "CO", "BTN", "SB", "BB">>
       [] n = 6 -> <<"UTG", "HJ", "CO", "BTN", "SB", "BB">>]

PlayerCounts == DOMAIN POSITIONS_BY_COUNT

(***************************************************************************)
(* Helpers on sequences of player indices.                                 *)
(***************************************************************************)
\* 0, 1, ..., n-1 as a sequence (array index order)
IndexSeq(n) == [k \in 1..n |-> k - 1]

Range(s) == {s[k] : k \in 1..Len(s)}

\* players.find(p => p.position === pos): first index, or -1
FindPosition(players, n, pos) ==
  LET found == {i \in 0..(n - 1) : players[i].position = pos}
  IN IF found = {} THEN -1 ELSE CHOOSE i \in found : \A j \in found : i <= j

(***************************************************************************)
(* action_log: mwLogAction / mwLogStreetTransition push an entry.  Only    *)
(* the most recent entry is kept (the machine never reads the log).        *)
(***************************************************************************)
SYSTEM == -1

mwLogAction(state, actor, action, amount) ==
  [state EXCEPT !.action_log =
     <<[actor |-> actor, action |-> action, amount |-> amount,
        street |-> state.street]>>]

mwLogStreetTransition(state) ==
  [state EXCEPT !.action_log =
     <<[actor |-> SYSTEM, action |-> "street", amount |-> 0,
        street |-> state.street]>>]

(***************************************************************************)
(* engine/simulate.js                                                      *)
(***************************************************************************)
applyBetAmount(pot, action) ==
  IF action \in DOMAIN BET_SIZES THEN RoundToTenth(pot, BET_SIZES[action])
  ELSE IF action = "raise" THEN RoundToTenth(pot, RAISE_PCT)
  ELSE 0

\* (mutant) the hero flag is given to the player at heroOffset
DealPlayersHeroAtOffset(numPlayers, stacks, heroOffset) ==
  LET positions == POSITIONS_BY_COUNT[numPlayers]
  IN [i \in 0..(numPlayers - 1) |->
        [idx |-> i,
         position |-> positions[((i + heroOffset) % numPlayers) + 1],
         stack |-> stacks[i],
         folded |-> FALSE,
         street_invested |-> 0,
         total_invested |-> 0,
         is_hero |-> (i = heroOffset % numPlayers)]]

\* the loop of generateMultiwayHand that creates the players
DealPlayers(numPlayers, stacks, heroOffset) ==
  LET positions == POSITIONS_BY_COUNT[numPlayers]
  IN [i \in 0..(numPlayers - 1) |->
        [idx |-> i,
         position |-> positions[((i + heroOffset) % numPlayers) + 1],
         stack |-> stacks[i],
         folded |-> FALSE,
         street_invested |-> 0,
         total_invested |-> 0,
         is_hero |-> (i = 0)]]

\* (mutant) the loop runs once too often and the big blind is queued twice
PreflopOrderBigBlindTwice(bbIdx, numPlayers) ==
  [k \in 1..(numPlayers + 1) |->
     IF k <= numPlayers THEN (bbIdx + k) % numPlayers ELSE bbIdx]

\* preflop action order: after BB clockwise, BB acts last
PreflopOrder(bbIdx, numPlayers) ==
  [k \in 1..numPlayers |->
     IF k < numPlayers THEN (bbIdx + k) % numPlayers ELSE bbIdx]

generateMultiwayHand(numPlayers, stacks, handNumber, heroOffset) ==
  LET dealt == DealPlayers(numPlayers, stacks, heroOffset)
      sbIdx == FindPosition(dealt, numPlayers, "SB")
      bbIdx == FindPosition(dealt, numPlayers, "BB")
      sbAmt == 5 * Tenth
      bbAmt == 10 * Tenth
      players == [i \in 0..(numPlayers - 1) |->
                   IF i = sbIdx
                   THEN [dealt[i] EXCEPT !.stack = @ - sbAmt,
                                         !.total_invested = sbAmt,
                                         !.street_invested = sbAmt]
                   ELSE IF i = bbIdx
                   THEN [dealt[i] EXCEPT !.stack = @ - bbAmt,
                                         !.total_invested = bbAmt,
                                         !.street_invested = bbAmt]
                   ELSE dealt[i]]
      preflopOrder == PreflopOrder(bbIdx, numPlayers)
      btnIdx == FindPosition(dealt, numPlayers, "BTN")
      dealerPlayerIdx == IF btnIdx >= 0 THEN btnIdx
                         ELSE IF sbIdx >= 0 THEN sbIdx ELSE 0
  IN [num_players |-> numPlayers,
      players |-> players,
      hero_idx |-> 0,
      dealer_player_idx |-> dealerPlayerIdx,
      pot |-> sbAmt + bbAmt,
      board_visible |-> 0,
      street |-> "preflop",
      current_bet |-> bbAmt,
      last_raiser_idx |-> -1,
      opener_idx |-> UNDEFINED,
      action_queue |-> preflopOrder,
      action_queue_pos |-> 0,
      sim_phase |-> "waiting",
      hand_over |-> FALSE,
      winner_idx |-> -1,
      winner_idxs |-> <<>>,
      hand_number |-> handNumber,
      hero_offset |-> heroOffset,
      session_log |-> <<>>,
      action_log |-> <<>>]

\* (mutant) the loop starts at the dealer's own seat
getMultiwayPostflopOrderFromDealer(players, n, dealerPlayerIdx) ==
  LET clockwise == [k \in 1..n |-> (dealerPlayerIdx + k - 1) % n]
  IN SelectSeq(clockwise, LAMBDA idx : ~players[idx].folded)

getMultiwayPostflopOrder(players, n, dealerPlayerIdx) ==
  LET clockwise == [k \in 1..n |-> (dealerPlayerIdx + k) % n]
  IN SelectSeq(clockwise, LAMBDA idx : ~players[idx].folded)

\* Hand.winners(hands): the entries of maximal strength.  handValues maps a
\* player index to the strength evaluate() returned for that player.
HandWinners(active, handValues) ==
  {i \in Range(active) : \A j \in Range(active) : handValues[i] >= handValues[j]}

\* (mutant) the folded players are not filtered out
resolveMultiwayShowdownAll(players, n, handValues) ==
  LET active == IndexSeq(n)
  IN IF Len(active) = 0
     THEN [winner_idxs |-> <<>>, pot_shares |-> <<>>]
     ELSE IF Len(active) = 1
     THEN [winner_idxs |-> <<active[1]>>,
           pot_shares |-> [w \in {active[1]} |-> [num |-> 1, den |-> 1]]]
     ELSE LET winnerSet == HandWinners(active, handValues)
              winnerIdxs == SelectSeq(active, LAMBDA i : i \in winnerSet)
          IN [winner_idxs |-> winnerIdxs,
              pot_shares |-> [w \in Range(winnerIdxs) |->
                                [num |-> 1, den |-> Len(winnerIdxs)]]]

resolveMultiwayShowdown(players, n, handValues) ==
  LET active == SelectSeq(IndexSeq(n), LAMBDA i : ~players[i].folded)
  IN IF Len(active) = 0
     THEN [winner_idxs |-> <<>>, pot_shares |-> <<>>]
     ELSE IF Len(active) = 1
     THEN [winner_idxs |-> <<active[1]>>,
           pot_shares |-> [w \in {active[1]} |-> [num |-> 1, den |-> 1]]]
     ELSE LET winnerSet == HandWinners(active, handValues)
              winnerIdxs == SelectSeq(active, LAMBDA i : i \in winnerSet)
          IN [winner_idxs |-> winnerIdxs,
              pot_shares |-> [w \in Range(winnerIdxs) |->
                                [num |-> 1, den |-> Len(winnerIdxs)]]]

(***************************************************************************)
(* ui/simulate.js: multiway simulate mode                                  *)
(***************************************************************************)
\* (mutant) the flop is followed by the river
mwAdvanceStreetSkipTurn(state) ==
  LET moved == IF state.street = "preflop"
               THEN [state EXCEPT !.street = "flop", !.board_visible = 3]
               ELSE [state EXCEPT !.street = "river", !.board_visible = 5]
      logged == mwLogStreetTransition(moved)
      cleared == [i \in DOMAIN logged.players |->
                    [logged.players[i] EXCEPT !.street_invested = 0]]
  IN [logged EXCEPT !.current_bet = 0,
                    !.last_raiser_idx = -1,
                    !.players = cleared,
                    !.action_queue =
                       getMultiwayPostflopOrder(cleared, logged.num_players,
                                                logged.dealer_player_idx),
                    !.action_queue_pos = 0]

mwAdvanceStreet(state) ==
  LET moved == IF state.street = "preflop"
               THEN [state EXCEPT !.street = "flop", !.board_visible = 3]
               ELSE IF state.street = "flop"
               THEN [state EXCEPT !.street = "turn", !.board_visible = 4]
               ELSE IF state.street = "turn"
               THEN [state EXCEPT !.street = "river", !.board_visible = 5]
               ELSE state
      logged == mwLogStreetTransition(moved)
      cleared == [i \in DOMAIN logged.players |->
                    [logged.players[i] EXCEPT !.street_invested = 0]]
  IN [logged EXCEPT !.current_bet = 0,
                    !.last_raiser_idx = -1,
                    !.players = cleared,
                    !.action_queue =
                       getMultiwayPostflopOrder(cleared, logged.num_players,
                                                logged.dealer_player_idx),
                    !.action_queue_pos = 0]

\* state.players.filter(p => !p.folded), as the sequence of their idx
mwActivePlayers(state) ==
  SelectSeq(IndexSeq(state.num_players), LAMBDA i : ~state.players[i].folded)

\* (mutant) every winner is paid the whole pot
mwEndHandWholePotEach(state, winnerIdxs, fold) ==
  LET hero == state.players[state.hero_idx]
      share == IF state.hero_idx \in Range(winnerIdxs)
               THEN state.pot \div Len(winnerIdxs) ELSE 0
      winAmount == share - hero.total_invested
      paid == [i \in DOMAIN state.players |->
                 IF i \in Range(winnerIdxs)
                 THEN [state.players[i] EXCEPT !.stack = @ + state.pot]
                 ELSE state.players[i]]
  IN [state EXCEPT
        !.hand_over = TRUE,
        !.winner_idxs = winnerIdxs,
        !.winner_idx = IF Len(winnerIdxs) > 0 THEN winnerIdxs[1] ELSE UNDEFINED,
        !.players = paid,
        !.sim_phase = IF fold THEN "hand_over" ELSE "showdown",
        !.session_log = Append(@, [hand_num |-> state.hand_number,
                                   result_bb |-> RoundToTenth(winAmount, 100)])]

mwEndHand(state, winnerIdxs, fold) ==
  LET hero == state.players[state.hero_idx]
      share == IF state.hero_idx \in Range(winnerIdxs)
               THEN state.pot \div Len(winnerIdxs) ELSE 0
      winAmount == share - hero.total_invested
      perPlayer == IF Len(winnerIdxs) > 0
                   THEN state.pot \div Len(winnerIdxs) ELSE 0
      paid == [i \in DOMAIN state.players |->
                 IF i \in Range(winnerIdxs)
                 THEN [state.players[i] EXCEPT !.stack = @ + perPlayer]
                 ELSE state.players[i]]
  IN [state EXCEPT
        !.hand_over = TRUE,
        !.winner_idxs = winnerIdxs,
        !.winner_idx = IF Len(winnerIdxs) > 0 THEN winnerIdxs[1] ELSE UNDEFINED,
        !.players = paid,
        !.sim_phase = IF fold THEN "hand_over" ELSE "showdown",
        !.session_log = Append(@, [hand_num |-> state.hand_number,
                                   result_bb |-> RoundToTenth(winAmount, 100)])]

\* (mutant) a raise is at least twice the bet faced
RaiseFloorDouble(currentBet) == currentBet * 2

\* state.current_bet * 2.5
RaiseFloor(currentBet) == (currentBet * 25) \div 10

\* (mutant) the amount is not clipped to the stack
ClipToStackNone(amount, stack) == amount

\* Math.min(amount, player.stack)
ClipToStack(amount, stack) == Min(amount, stack)

\* (mutant) the chips of a call are not added to the pot
mwApplyActionCallOutsidePot(state, playerIdx, action) ==
  LET player == state.players[playerIdx] IN
  IF action = "fold" THEN
    LET folded == mwLogAction([state EXCEPT !.players[playerIdx].folded = TRUE],
                              playerIdx, "fold", 0)
        active == mwActivePlayers(folded)
    IN IF Len(active) = 1 THEN mwEndHand(folded, <<active[1]>>, TRUE)
       ELSE folded
  ELSE IF action = "call" THEN
    LET callAmount == ClipToStack(state.current_bet - player.street_invested,
                                  player.stack)
    IN mwLogAction(
         [state EXCEPT !.players[playerIdx].stack = @ - callAmount,
                       !.players[playerIdx].total_invested = @ + callAmount,
                       !.players[playerIdx].street_invested = @ + callAmount],
         playerIdx, "call", callAmount)
  ELSE IF action = "check" THEN
    mwLogAction(state, playerIdx, "check", 0)
  ELSE
    \* Bet or raise
    LET sized == applyBetAmount(state.pot, action)
        betAmount ==
          IF state.street = "preflop"
          THEN IF state.current_bet > 0 /\ state.last_raiser_idx >= 0
               THEN THREE_BET ELSE OPEN_RAISE
          ELSE IF state.current_bet > 0
               THEN Max(sized, RaiseFloor(state.current_bet))
               ELSE sized
        additional == ClipToStack(betAmount - player.street_invested,
                                  player.stack)
        invested == player.street_invested + additional
    IN mwLogAction(
         [state EXCEPT !.players[playerIdx].stack = @ - additional,
                       !.players[playerIdx].total_invested = @ + additional,
                       !.players[playerIdx].street_invested = invested,
                       !.pot = @ + additional,
                       !.current_bet = invested,
                       !.opener_idx =
                          IF state.street = "preflop" /\ JsLess(@, 0)
                          THEN playerIdx ELSE @,
                       !.last_raiser_idx = playerIdx],
         playerIdx, action, additional)

mwApplyAction(state, playerIdx, action) ==
  LET player == state.players[playerIdx] IN
  IF action = "fold" THEN
    LET folded == mwLogAction([state EXCEPT !.players[playerIdx].folded = TRUE],
                              playerIdx, "fold", 0)
        active == mwActivePlayers(folded)
    IN IF Len(active) = 1 THEN mwEndHand(folded, <<active[1]>>, TRUE)
       ELSE folded
  ELSE IF action = "call" THEN
    LET callAmount == ClipToStack(state.current_bet - player.street_invested,
                                  player.stack)
    IN mwLogAction(
         [state EXCEPT !.players[playerIdx].stack = @ - callAmount,
                       !.players[playerIdx].total_invested = @ + callAmount,
                       !.players[playerIdx].street_invested = @ + callAmount,
                       !.pot = @ + callAmount],
         playerIdx, "call", callAmount)
  ELSE IF action = "check" THEN
    mwLogAction(state, playerIdx, "check", 0)
  ELSE
    \* Bet or raise
    LET sized == applyBetAmount(state.pot, action)
        betAmount ==
          IF state.street = "preflop"
          THEN IF state.current_bet > 0 /\ state.last_raiser_idx >= 0
               THEN THREE_BET ELSE OPEN_RAISE
          ELSE IF state.current_bet > 0
               THEN Max(sized, RaiseFloor(state.current_bet))
               ELSE sized
        additional == ClipToStack(betAmount - player.street_invested,
                                  player.stack)
        invested == player.street_invested + additional
    IN mwLogAction(
         [state EXCEPT !.players[playerIdx].stack = @ - additional,
                       !.players[playerIdx].total_invested = @ + additional,
                       !.players[playerIdx].street_invested = invested,
                       !.pot = @ + additional,
                       !.current_bet = invested,
                       !.opener_idx =
                          IF state.street = "preflop" /\ JsLess(@, 0)
                          THEN playerIdx ELSE @,
                       !.last_raiser_idx = playerIdx],
         playerIdx, action, additional)

\* The actions the simulated villain's policy can return.
villainPreflopAct(facingRaise) ==
  IF facingRaise THEN {"call", "fold", "raise"} ELSE {"raise", "fold"}

\* (mutant) the noise draw picks check / bet_m whether or not a bet is faced
villainPostflopActNoiseUnfaced(facingBet) ==
  IF facingBet THEN {"call", "fold", "raise", "check", "bet_m"}
  ELSE {"check", "bet_s", "bet_m", "bet_l"}

villainPostflopAct(facingBet) ==
  IF facingBet THEN {"call", "fold", "raise"}
  ELSE {"check", "bet_s", "bet_m", "bet_l"}

mwVillainChoices(state, playerIdx) ==
  LET player == state.players[playerIdx]
      facingBet == state.current_bet > player.street_invested
  IN IF state.street = "preflop" THEN villainPreflopAct(facingBet)
     ELSE villainPostflopAct(facingBet)

\* the opener's position that mwVillainAct hands to narrowPreflop:
\* state.opener_idx >= 0 ? state.players[state.opener_idx].position : null
mwOpenerPos(state) ==
  IF JsLess(-1, state.opener_idx)
  THEN state.players[state.opener_idx].position ELSE null

mwVillainAct(state, playerIdx, action) ==
  mwApplyAction(state, playerIdx, action)

\* (mutant) the rebuilt queue keeps the players who have folded
RebuildQueueKeepFolded(state, currentIdx) ==
  LET n == state.num_players
      others == [k \in 1..(n - 1) |-> (currentIdx + k) % n]
  IN SelectSeq(others, LAMBDA idx : idx # currentIdx)

\* The queue rebuilt after currentIdx bet or raised.
RebuildQueue(state, currentIdx) ==
  LET n == state.num_players
      others == [k \in 1..(n - 1) |-> (currentIdx + k) % n]
  IN SelectSeq(others,
               LAMBDA idx : ~state.players[idx].folded /\ idx # currentIdx)

mwGetAvailableActions(state) ==
  LET hero == state.players[state.hero_idx]
      facingBet == state.current_bet > hero.street_invested
  IN IF state.street = "preflop"
     THEN IF facingBet THEN {"raise", "call", "fold"} ELSE {"raise", "fold"}
     ELSE IF facingBet THEN {"fold", "call", "raise"}
     ELSE {"check", "bet_s", "bet_m", "bet_l"}

\* (mutant) a hero raise does not re-open the action
mwProcessHeroActionNoReopen(state, heroAction) ==
  LET applied == mwApplyAction(state, state.hero_idx, heroAction)
  IN IF applied.hand_over THEN applied
     ELSE [applied EXCEPT !.action_queue_pos = @ + 1]

\* mwProcessHeroAction up to its final call of mwRunUntilHero
mwProcessHeroAction(state, heroAction) ==
  LET wasRaiser == state.last_raiser_idx
      applied == mwApplyAction(state, state.hero_idx, heroAction)
  IN IF applied.hand_over THEN applied
     ELSE IF applied.last_raiser_idx = applied.hero_idx
             /\ applied.last_raiser_idx # wasRaiser
     THEN [applied EXCEPT
             !.action_queue = RebuildQueue(applied, applied.hero_idx),
             !.action_queue_pos = 0]
     ELSE [applied EXCEPT !.action_queue_pos = @ + 1]

\* One iteration of the villain branch of the loop of mwRunUntilHero
mwVillainIteration(state, currentIdx, action) ==
  LET acted == mwVillainAct(state, currentIdx, action)
  IN IF acted.hand_over THEN acted
     ELSE IF acted.last_raiser_idx = currentIdx
     THEN [acted EXCEPT
             !.action_queue = RebuildQueue(acted, currentIdx),
             !.action_queue_pos = 0]
     ELSE [acted EXCEPT !.action_queue_pos = @ + 1]

\* mwFinishRound up to its final call of mwRunUntilHero; handValues are the
\* results of evaluate() for the non-folded players.
mwFinishRound(state, handValues) ==
  LET active == mwActivePlayers(state)
  IN IF Len(active) = 1 THEN mwEndHand(state, <<active[1]>>, TRUE)
     ELSE IF state.street = "river"
     THEN mwEndHand(state,
            resolveMultiwayShowdown(state.players, state.num_players,
                                    handValues).winner_idxs,
            FALSE)
     ELSE mwAdvanceStreet(state)

(***************************************************************************)
(* The state machine.  pc is the position of the UI:                       *)
(*   "mwRunUntilHero"  inside the loop of mwRunUntilHero                   *)
(*   "hero_decision"   mwRunUntilHero returned, waiting for a button click *)
(*   "hand_complete"   mwRunUntilHero returned with the hand over          *)
(***************************************************************************)
NoShowdown == [winner_idxs |-> <<>>, pot_shares |-> <<>>]

LoopRunning ==
  /\ pc = "mwRunUntilHero"
  /\ simState.action_queue_pos < Len(simState.action_queue)
  /\ ~simState.hand_over

CurrentIdx == simState.action_queue[simState.action_queue_pos + 1]

Stacks(n) == [i \in 0..(n - 1) |-> StartStack * BigBlind]

\* startMultiwaySession / the next-hand handler up to the call of
\* mwRunUntilHero
Init ==
  /\ \E n \in 2..MaxPlayers : \E heroOffset \in 0..(n - 1) :
       simState = generateMultiwayHand(n, Stacks(n), 1, heroOffset)
  /\ pc = "mwRunUntilHero"
  /\ hands = <<>>
  /\ resolved = NoShowdown
  /\ estimated_range = null
  /\ observed = null
  /\ strategiesData = {}
  /\ strategyTables = <<>>
  /\ strategy = <<>>
  /\ returned = null

\* One iteration of the loop of mwRunUntilHero: skip a folded player, stop
\* at the hero (mwRunUntilHero returns), or let a villain act.
RunLoop ==
  /\ LoopRunning
  /\ IF simState.players[CurrentIdx].folded
     THEN /\ simState' = [simState EXCEPT !.action_queue_pos = @ + 1]
          /\ pc' = pc
     ELSE IF simState.players[CurrentIdx].is_hero
     THEN /\ simState' = [simState EXCEPT !.sim_phase =
                            IF simState.street = "preflop"
                            THEN "preflop_decision" ELSE "postflop_decision"]
          /\ pc' = "hero_decision"
     ELSE /\ \E action \in mwVillainChoices(simState, CurrentIdx) :
               simState' = mwVillainIteration(simState, CurrentIdx, action)
          /\ pc' = IF simState'.hand_over THEN "hand_complete"
                   ELSE "mwRunUntilHero"
  /\ UNCHANGED <<hands, resolved>>
  /\ UNCHANGED trackerVars
  /\ UNCHANGED strategyVars

\* the loop is left with the queue exhausted: mwFinishRound
FinishRound ==
  /\ pc = "mwRunUntilHero"
  /\ ~simState.hand_over
  /\ simState.action_queue_pos >= Len(simState.action_queue)
  /\ IF Len(mwActivePlayers(simState)) > 1 /\ simState.street = "river"
     THEN \E h \in [Range(mwActivePlayers(simState)) -> 1..MaxHandValue] :
            /\ hands' = h
            /\ resolved' = resolveMultiwayShowdown(simState.players,
                                                   simState.num_players, h)
            /\ simState' = mwFinishRound(simState, h)
     ELSE /\ simState' = mwFinishRound(simState, hands)
          /\ UNCHANGED <<hands, resolved>>
  /\ pc' = IF simState'.hand_over THEN "hand_complete" ELSE "mwRunUntilHero"
  /\ UNCHANGED trackerVars
  /\ UNCHANGED strategyVars

\* the hero clicks one of the offered action buttons
HeroAction ==
  /\ pc = "hero_decision"
  /\ \E heroAction \in mwGetAvailableActions(simState) :
       simState' = mwProcessHeroAction(simState, heroAction)
  /\ pc' = IF simState'.hand_over THEN "hand_complete" ELSE "mwRunUntilHero"
  /\ UNCHANGED <<hands, resolved>>
  /\ UNCHANGED trackerVars
  /\ UNCHANGED strategyVars

Next ==
  \/ RunLoop
  \/ FinishRound
  \/ HeroAction

Spec == Init /\ [][Next]_vars

\* The hand as it runs: the loop of mwRunUntilHero is executed to its end,
\* mwFinishRound is called when the loop is left, and the hero does click
\* one of the offered buttons.  Which action a villain draws, and which
\* button the hero clicks, stays free.
FairSpec ==
  /\ Spec
  /\ WF_vars(RunLoop)
  /\ WF_vars(FinishRound)
  /\ WF_vars(HeroAction)

(***************************************************************************)
(* The engine functions applied to arbitrary arguments, as the unit tests  *)
(* apply them: generateMultiwayHand for every table size and hero offset,  *)
(* resolveMultiwayShowdown for every set of folded players and every       *)
(* assignment of hand strengths.                                           *)
(***************************************************************************)
InitEngine ==
  /\ \E n \in PlayerCounts : \E heroOffset \in 0..5 :
       simState = generateMultiwayHand(n, Stacks(n), 1, heroOffset)
  /\ pc = "generated"
  /\ hands = <<>>
  /\ resolved = NoShowdown
  /\ estimated_range = null
  /\ observed = null
  /\ strategiesData = {}
  /\ strategyTables = <<>>
  /\ strategy = <<>>
  /\ returned = null

ArrangeShowdown ==
  /\ pc = "generated"
  /\ \E F \in SUBSET (0..(simState.num_players - 1)) :
       simState' = [simState EXCEPT !.players =
                      [i \in DOMAIN @ |-> [@[i] EXCEPT !.folded = (i \in F)]]]
  /\ hands' \in [0..(simState.num_players - 1) -> 1..MaxHandValue]
  /\ pc' = "arranged"
  /\ UNCHANGED resolved
  /\ UNCHANGED trackerVars
  /\ UNCHANGED strategyVars

ResolveShowdown ==
  /\ pc = "arranged"
  /\ resolved' = resolveMultiwayShowdown(simState.players,
                                         simState.num_players, hands)
  /\ pc' = "resolved"
  /\ UNCHANGED <<simState, hands>>
  /\ UNCHANGED trackerVars
  /\ UNCHANGED strategyVars

NextEngine ==
  \/ ArrangeShowdown
  \/ ResolveShowdown

SpecEngine == InitEngine /\ [][NextEngine]_vars

(***************************************************************************)
(* engine/evaluator.js and engine/ranges.js: cards and canonical hand keys *)
(*                                                                         *)
(* A card is the two-character string rank \o suit ("Ah"), a hand key is   *)
(* the string of buildGrid ("AA", "AKs", "AKo").  Indexing a string        *)
(* (card[0], handKey[2]) is modelled by the table of the characters that   *)
(* concatenate to it.                                                      *)
(***************************************************************************)
RANKS == <<"2", "3", "4", "5", "6", "7", "8", "9", "T", "J", "Q", "K", "A">>
SUITS == <<"h", "d", "c", "s">>

createDeck == {RANKS[r] \o SUITS[s] : r \in 1..13, s \in 1..4}

\* the characters of a card string
CardChars ==
  [card \in createDeck |->
     CHOOSE ch \in Range(RANKS) \X Range(SUITS) : ch[1] \o ch[2] = card]

\* RANKS.indexOf(cardStr[0]): 0 for a deuce, 12 for an ace
rankInt(cardStr) ==
  (CHOOSE r \in 1..13 : RANKS[r] = CardChars[cardStr][1]) - 1

suitChar(cardStr) == CardChars[cardStr][2]

RANKS_DISPLAY ==
  <<"A", "K", "Q", "J", "T", "9", "8", "7", "6", "5", "4", "3", "2">>

\* the 13 x 13 grid of canonical hand keys
buildGrid ==
  [i \in 1..13 |->
     [j \in 1..13 |->
        IF i = j THEN RANKS_DISPLAY[i] \o RANKS_DISPLAY[j]
        ELSE IF i < j THEN RANKS_DISPLAY[i] \o RANKS_DISPLAY[j] \o "s"
        ELSE RANKS_DISPLAY[j] \o RANKS_DISPLAY[i] \o "o"]]

\* the keys of the grid, row by row
allHandKeys ==
  [k \in 1..169 |-> buildGrid[((k - 1) \div 13) + 1][((k - 1) % 13) + 1]]

\* the characters of a hand key: two ranks, and "s" or "o" unless a pair
KeyChars ==
  [handKey \in Range(allHandKeys) |->
     CHOOSE ch \in (Range(RANKS) \X Range(RANKS))
                     \cup (Range(RANKS) \X Range(RANKS) \X {"s", "o"}) :
       IF Len(ch) = 2 THEN ch[1] \o ch[2] = handKey
       ELSE ch[1] \o ch[2] \o ch[3] = handKey]

(***************************************************************************)
(* engine/ranges.js: the preflop range tables                              *)
(***************************************************************************)
RFI_RANGES ==
  [ UTG |->
      {"AA", "KK", "QQ", "JJ", "TT", "99", "88", "77", "66", "AKs", "AQs",
       "AJs", "ATs", "A5s", "A4s", "KQs", "KJs", "KTs", "QJs", "QTs", "JTs",
       "T9s", "98s", "AKo", "AQo"},
    MP |->
      {"AA", "KK", "QQ", "JJ", "TT", "99", "88", "77", "66", "55", "AKs",
       "AQs", "AJs", "ATs", "A9s", "A5s", "A4s", "A3s", "KQs", "KJs", "KTs",
       "K9s", "QJs", "QTs", "Q9s", "JTs", "J9s", "T9s", "98s", "87s", "AKo",
       "AQo", "AJo"},
    CO |->
      {"AA", "KK", "QQ", "JJ", "TT", "99", "88", "77", "66", "55", "44",
       "33", "22", "AKs", "AQs", "AJs", "ATs", "A9s", "A8s", "A7s", "A6s",
       "A5s", "A4s", "A3s", "A2s", "KQs", "KJs", "KTs", "K9s", "K8s", "QJs",
       "QTs", "Q9s", "JTs", "J9s", "J8s", "T9s", "T8s", "98s", "97s", "87s",
       "86s", "76s", "75s", "65s", "64s", "54s", "AKo", "AQo", "AJo", "ATo",
       "KQo", "KJo"},
    BTN |->
      {"AA", "KK", "QQ", "JJ", "TT", "99", "88", "77", "66", "55", "44",
       "33", "22", "AKs", "AQs", "AJs", "ATs", "A9s", "A8s", "A7s", "A6s",
       "A5s", "A4s", "A3s", "A2s", "KQs", "KJs", "KTs", "K9s", "K8s", "K7s",
       "K6s", "K5s", "QJs", "QTs", "Q9s", "Q8s", "Q7s", "JTs", "J9s", "J8s",
       "J7s", "T9s", "T8s", "T7s", "98s", "97s", "96s", "87s", "86s", "85s",
       "76s", "75s", "65s", "64s", "54s", "53s", "43s", "AKo", "AQo", "AJo",
       "ATo", "A9o", "A8o", "A7o", "KQo", "KJo", "KTo", "K9o", "QJo", "QTo",
       "JTo", "J9o", "T9o", "98o"},
    SB |->
      {"AA", "KK", "QQ", "JJ", "TT", "99", "88", "77", "66", "55", "44",
       "33", "22", "AKs", "AQs", "AJs", "ATs", "A9s", "A8s", "A7s", "A6s",
       "A5s", "A4s", "A3s", "A2s", "KQs", "KJs", "KTs", "K9s", "K8s", "K7s",
       "K6s", "K5s", "K4s", "QJs", "QTs", "Q9s", "Q8s", "Q7s", "Q6s", "JTs",
       "J9s", "J8s", "J7s", "T9s", "T8s", "T7s", "98s", "97s", "96s", "87s",
       "86s", "76s", "75s", "65s", "64s", "54s", "53s", "43s", "AKo", "AQo",
       "AJo", "ATo", "A9o", "A8o", "A7o", "A6o", "KQo", "KJo", "KTo", "K9o",
       "QJo", "QTo", "Q9o", "JTo", "J9o", "T9o", "98o"} ]

FACING_OPEN ==
     "BTN|UTG" :>
      [ raise |->
          {"AA", "KK", "QQ", "AKs", "AKo"},
        call |->
          {"JJ", "TT", "99", "88", "77", "AQs", "AJs", "ATs", "KQs", "QJs",
           "JTs", "T9s", "98s", "AQo"} ]
  @@ "BTN|MP" :>
      [ raise |->
          {"AA", "KK", "QQ", "AKs", "AKo", "AQs"},
        call |->
          {"JJ", "TT", "99", "88", "77", "66", "AJs", "ATs", "A5s", "KQs",
           "KJs", "QJs", "JTs", "T9s", "98s", "87s", "AQo", "AJo"} ]
  @@ "BTN|CO" :>
      [ raise |->
          {"AA", "KK", "QQ", "JJ", "AKs", "AQs", "AKo", "A5s", "A4s"},
        call |->
          {"TT", "99", "88", "77", "66", "55", "AJs", "ATs", "A9s", "KQs",
           "KJs", "KTs", "QJs", "QTs", "JTs", "J9s", "T9s", "98s", "87s",
           "76s", "65s", "AQo", "AJo", "KQo"} ]
  @@ "CO|UTG" :>
      [ raise |->
          {"AA", "KK", "QQ", "AKs", "AKo"},
        call |->
          {"JJ", "TT", "99", "88", "77", "AQs", "AJs", "ATs", "KQs", "QJs",
           "JTs", "T9s", "AQo"} ]
  @@ "CO|MP" :>
      [ raise |->
          {"AA", "KK", "QQ", "AKs", "AKo", "AQs"},
        call |->
          {"JJ", "TT", "99", "88", "77", "AJs", "ATs", "KQs", "KJs", "QJs",
           "JTs", "T9s", "98s", "AQo", "AJo"} ]
  @@ "BB|UTG" :>
      [ raise |->
          {"AA", "KK", "QQ", "AKs", "AKo"},
        call |->
          {"JJ", "TT", "99", "88", "77", "66", "55", "44", "AQs", "AJs",
           "ATs", "A9s", "A5s", "A4s", "A3s", "A2s", "KQs", "KJs", "KTs",
           "K9s", "QJs", "QTs", "Q9s", "JTs", "J9s", "T9s", "T8s", "98s",
           "97s", "87s", "86s", "76s", "75s", "65s", "54s", "AQo", "AJo",
           "KQo"} ]
  @@ "BB|MP" :>
      [ raise |->
          {"AA", "KK", "QQ", "AKs", "AKo", "AQs"},
        call |->
          {"JJ", "TT", "99", "88", "77", "66", "55", "44", "33", "AJs",
           "ATs", "A9s", "A8s", "A5s", "A4s", "A3s", "A2s", "KQs", "KJs",
           "KTs", "K9s", "QJs", "QTs", "Q9s", "JTs", "J9s", "J8s", "T9s",
           "T8s", "98s", "97s", "87s", "86s", "76s", "75s", "65s", "64s",
           "54s", "53s", "AQo", "AJo", "ATo", "KQo", "KJo"} ]
  @@ "BB|CO" :>
      [ raise |->
          {"AA", "KK", "QQ", "JJ", "AKs", "AQs", "AKo", "A5s", "A4s"},
        call |->
          {"TT", "99", "88", "77", "66", "55", "44", "33", "22", "AJs",
           "ATs", "A9s", "A8s", "A7s", "A6s", "A3s", "A2s", "KQs", "KJs",
           "KTs", "K9s", "K8s", "K7s", "QJs", "QTs", "Q9s", "Q8s", "JTs",
           "J9s", "J8s", "T9s", "T8s", "T7s", "98s", "97s", "96s", "87s",
           "86s", "85s", "76s", "75s", "65s", "64s", "54s", "53s", "43s",
           "AQo", "AJo", "ATo", "A9o", "KQo", "KJo", "KTo", "QJo", "QTo",
           "JTo", "T9o"} ]
  @@ "BB|BTN" :>
      [ raise |->
          {"AA", "KK", "QQ", "JJ", "TT", "AKs", "AQs", "AJs", "AKo", "AQo",
           "A5s", "A4s"},
        call |->
          {"99", "88", "77", "66", "55", "44", "33", "22", "ATs", "A9s",
           "A8s", "A7s", "A6s", "A3s", "A2s", "KQs", "KJs", "KTs", "K9s",
           "K8s", "K7s", "K6s", "K5s", "QJs", "QTs", "Q9s", "Q8s", "Q7s",
           "JTs", "J9s", "J8s", "J7s", "T9s", "T8s", "T7s", "98s", "97s",
           "96s", "87s", "86s", "85s", "76s", "75s", "65s", "64s", "54s",
           "53s", "43s", "AJo", "ATo", "A9o", "A8o", "A7o", "KQo", "KJo",
           "KTo", "K9o", "QJo", "QTo", "Q9o", "JTo", "J9o", "T9o", "T8o",
           "98o", "97o", "87o", "86o", "76o"} ]
  @@ "SB|UTG" :>
      [ raise |->
          {"AA", "KK", "QQ", "AKs", "AKo"},
        call |->
          {"JJ", "TT", "99", "AQs", "AJs", "KQs", "AQo"} ]
  @@ "SB|MP" :>
      [ raise |->
          {"AA", "KK", "QQ", "AKs", "AKo", "AQs"},
        call |->
          {"JJ", "TT", "99", "88", "AJs", "ATs", "KQs", "KJs", "QJs", "JTs",
           "AQo", "AJo"} ]
  @@ "SB|CO" :>
      [ raise |->
          {"AA", "KK", "QQ", "JJ", "AKs", "AQs", "AKo", "A5s", "A4s"},
        call |->
          {"TT", "99", "88", "77", "AJs", "ATs", "A9s", "KQs", "KJs", "KTs",
           "QJs", "QTs", "JTs", "T9s", "98s", "AQo", "AJo", "KQo"} ]
  @@ "SB|BTN" :>
      [ raise |->
          {"AA", "KK", "QQ", "JJ", "TT", "AKs", "AQs", "AJs", "ATs", "AKo",
           "AQo", "A5s", "A4s"},
        call |->
          {"99", "88", "77", "66", "A9s", "A8s", "KQs", "KJs", "KTs", "QJs",
           "QTs", "JTs", "T9s", "98s", "AJo", "KQo"} ]
  @@ "BB|SB" :>
      [ raise |->
          {"AA", "KK", "QQ", "JJ", "TT", "99", "AKs", "AQs", "AJs", "ATs",
           "AKo", "AQo", "A5s", "A4s", "A3s"},
        call |->
          {"88", "77", "66", "55", "44", "33", "22", "A9s", "A8s", "A7s",
           "A6s", "A2s", "KQs", "KJs", "KTs", "K9s", "K8s", "K7s", "K6s",
           "QJs", "QTs", "Q9s", "Q8s", "Q7s", "JTs", "J9s", "J8s", "J7s",
           "T9s", "T8s", "T7s", "98s", "97s", "96s", "87s", "86s", "85s",
           "76s", "75s", "65s", "64s", "54s", "53s", "43s", "AJo", "ATo",
           "A9o", "A8o", "A7o", "KQo", "KJo", "KTo", "K9o", "QJo", "QTo",
           "Q9o", "JTo", "J9o", "T9o", "T8o", "98o", "97o", "87o", "76o"} ]

(***************************************************************************)
(* Weights of a range are JavaScript numbers; they are modelled as exact   *)
(* fractions num / den in lowest terms, den > 0.                           *)
(***************************************************************************)
RECURSIVE Gcd(_, _)
Gcd(a, b) == IF b = 0 THEN a ELSE Gcd(b, a % b)

Frac(n, d) == LET g == Gcd(n, d)
              IN IF n = 0 THEN [num |-> 0, den |-> 1]
                 ELSE [num |-> n \div g, den |-> d \div g]

ZERO == Frac(0, 1)
ONE == Frac(1, 1)

\* a * b and a / b (b > 0), with the common factors removed before the
\* multiplication
FracMul(a, b) ==
  LET x == Frac(a.num, b.den)
      y == Frac(b.num, a.den)
  IN Frac(x.num * y.num, x.den * y.den)

FracDiv(a, b) == FracMul(a, [num |-> b.den, den |-> b.num])

FracAdd(a, b) == Frac(a.num * b.den + b.num * a.den, a.den * b.den)

\* a < b, by the continued fractions of a and b
RECURSIVE FracLess(_, _)
FracLess(a, b) ==
  LET qa == a.num \div a.den
      qb == b.num \div b.den
      ra == a.num % a.den
      rb == b.num % b.den
  IN IF qa # qb THEN qa < qb
     ELSE IF rb = 0 THEN FALSE
     ELSE IF ra = 0 THEN TRUE
     ELSE FracLess([num |-> b.den, den |-> rb], [num |-> a.den, den |-> ra])

FracMax(a, b) == IF FracLess(a, b) THEN b ELSE a

(***************************************************************************)
(* engine/rangeTracker.js                                                  *)
(***************************************************************************)
\* the suit combinations of a hand key, as pairs of cards: 6 for a pair,
\* 4 for a suited key, 12 for an offsuit key
expandHandKey(handKey) ==
  LET ch == KeyChars[handKey]
  IN IF Len(handKey) = 2
     THEN {<<ch[1] \o SUITS[p[1]], ch[1] \o SUITS[p[2]]>> :
             p \in {q \in (1..4) \X (1..4) : q[1] < q[2]}}
     ELSE IF ch[3] = "s"
     THEN {<<ch[1] \o SUITS[i], ch[2] \o SUITS[i]>> : i \in 1..4}
     ELSE {<<ch[1] \o SUITS[p[1]], ch[2] \o SUITS[p[2]]>> :
             p \in {q \in (1..4) \X (1..4) : q[1] # q[2]}}

\* (mutant) a position without an opening range has no range at all
OpeningRangeNoFallback(position) ==
  IF position \in DOMAIN RFI_RANGES THEN RFI_RANGES[position] ELSE {}

\* RFI_RANGES[rfiPos] with rfiPos = RFI_RANGES[position] ? position : 'BTN'
OpeningRange(position) ==
  LET rfiPos == IF position \in DOMAIN RFI_RANGES THEN position ELSE "BTN"
  IN RFI_RANGES[rfiPos]

\* (mutant) only the hands of the opening range are entered in the Map
initVillainRangeInRangeOnly(position) ==
  [key \in OpeningRange(position) |-> ONE]

initVillainRange(position) ==
  [key \in Range(allHandKeys) |->
     IF key \in OpeningRange(position) THEN ONE ELSE ZERO]

\* (mutant) a folded range is left as it was
ZeroOutNothing(range) == range

\* for (const key of range.keys()) range.set(key, 0)
ZeroOut(range) == [key \in DOMAIN range |-> ZERO]

\* (mutant) the call set and the 3-bet set of the pair are exchanged
FacingRangeSwapped(villainPos, action, openerPos) ==
  LET key == villainPos \o "|" \o openerPos
  IN IF key \notin DOMAIN FACING_OPEN THEN {}
     ELSE IF action = "call" THEN {FACING_OPEN[key].raise}
     ELSE {FACING_OPEN[key].call}

\* the target set of a call or a raise against an opener: the set holding
\* FACING_OPEN[villainPos|openerPos].call or .raise, empty when the pair
\* has no table (targetSet stays null)
FacingRange(villainPos, action, openerPos) ==
  LET key == villainPos \o "|" \o openerPos
  IN IF key \notin DOMAIN FACING_OPEN THEN {}
     ELSE IF action = "call" THEN {FACING_OPEN[key].call}
     ELSE {FACING_OPEN[key].raise}

narrowPreflop(range, villainPos, action, openerPos) ==
  IF action = "fold" THEN ZeroOut(range)
  ELSE
    LET targetSet ==
          IF action = "raise" /\ openerPos = null
          THEN {OpeningRange(villainPos)}
          ELSE IF action = "call" /\ openerPos # null
          THEN FacingRange(villainPos, action, openerPos)
          ELSE IF action = "raise" /\ openerPos # null
          THEN FacingRange(villainPos, action, openerPos)
          ELSE {}
    IN IF targetSet = {} THEN range
       ELSE [key \in DOMAIN range |->
               IF \E target \in targetSet : key \in target THEN ONE
               ELSE ZERO]

\* getRangeStats(range).combos: the keys of weight above 0.05
getRangeStats(range) ==
  LET combos == Cardinality({key \in DOMAIN range :
                               FracLess(Frac(1, 20), range[key])})
  IN [combos |-> combos, pct |-> (combos * 200 + 169) \div 338]

(***************************************************************************)
(* engine/postflop.js (the 8-texture version): board texture               *)
(***************************************************************************)
MONOTONE == "monotone"
PAIRED == "paired"
WET_CONNECTED == "wet_connected"
WET_TWOTONE == "wet_twotone"
HIGH_DRY_A == "high_dry_A"
HIGH_DRY_K == "high_dry_K"
MEDIUM_DRY == "medium_dry"
LOW_DRY == "low_dry"

TEXTURES == <<MONOTONE, PAIRED, WET_CONNECTED, WET_TWOTONE,
              HIGH_DRY_A, HIGH_DRY_K, MEDIUM_DRY, LOW_DRY>>

\* the largest element of a non-empty set of integers (Math.max(...xs))
MaxOf(xs) == CHOOSE x \in xs : \A y \in xs : y <= x

\* cards.map(c => suitChar(c)) and cards.map(c => rankInt(c))
MapSuits(cards) == [k \in 1..Len(cards) |-> suitChar(cards[k])]
MapRanks(cards) == [k \in 1..Len(cards) |-> rankInt(cards[k])]

\* countBy(arr): how many entries of the array have each value
countBy(arr) ==
  [v \in Range(arr) |-> Cardinality({k \in 1..Len(arr) : arr[k] = v})]

\* (mutant) two suits are tested before the connection
classifyTextureTwoToneFirst(board) ==
  LET suitCounts == countBy(MapSuits(board))
      rankCounts == countBy(MapRanks(board))
      ranks == DOMAIN rankCounts
      maxSuit == MaxOf({suitCounts[s] : s \in DOMAIN suitCounts})
      maxRank == MaxOf({rankCounts[r] : r \in ranks})
      \* sortedRanks[i + 1] - sortedRanks[i] over the sorted ranks
      gaps == {(CHOOSE hi \in ranks :
                  hi > lo /\ \A m \in ranks : m > lo => hi <= m) - lo :
                 lo \in ranks \ {MaxOf(ranks)}}
      maxGap == MaxOf(gaps \cup {0})
      isTwoTone == maxSuit >= 2
      isConnected == maxGap <= 2
      highest == MaxOf(ranks)
  IN IF maxSuit >= 3 THEN MONOTONE
     ELSE IF maxRank >= 2 THEN PAIRED
     ELSE IF isTwoTone THEN WET_TWOTONE
     ELSE IF isConnected THEN WET_CONNECTED
     ELSE IF highest = 12 THEN HIGH_DRY_A
     ELSE IF highest >= 10 THEN HIGH_DRY_K
     ELSE IF highest >= 7 THEN MEDIUM_DRY
     ELSE LOW_DRY

classifyTexture(board) ==
  LET suitCounts == countBy(MapSuits(board))
      rankCounts == countBy(MapRanks(board))
      ranks == DOMAIN rankCounts
      maxSuit == MaxOf({suitCounts[s] : s \in DOMAIN suitCounts})
      maxRank == MaxOf({rankCounts[r] : r \in ranks})
      \* sortedRanks[i + 1] - sortedRanks[i] over the sorted ranks
      gaps == {(CHOOSE hi \in ranks :
                  hi > lo /\ \A m \in ranks : m > lo => hi <= m) - lo :
                 lo \in ranks \ {MaxOf(ranks)}}
      maxGap == MaxOf(gaps \cup {0})
      isTwoTone == maxSuit >= 2
      isConnected == maxGap <= 2
      highest == MaxOf(ranks)
  IN IF maxSuit >= 3 THEN MONOTONE
     ELSE IF maxRank >= 2 THEN PAIRED
     ELSE IF isConnected THEN WET_CONNECTED
     ELSE IF isTwoTone THEN WET_TWOTONE
     ELSE IF highest = 12 THEN HIGH_DRY_A
     ELSE IF highest >= 10 THEN HIGH_DRY_K
     ELSE IF highest >= 7 THEN MEDIUM_DRY
     ELSE LOW_DRY

(***************************************************************************)
(* engine/evaluator.js: evaluate() hands the cards to pokersolver; only    *)
(* the class of the best five-card hand is read back (getRankClass).       *)
(***************************************************************************)
\* the ranks with the ace also counted low (-1), for the wheel
WithLowAce(ranks) == ranks \cup (IF 12 \in ranks THEN {-1} ELSE {})

HasStraight(ranks) ==
  \E lo \in -1..8 : \A k \in 0..4 : (lo + k) \in WithLowAce(ranks)

\* the rank class of Hand.solve(cards): 1 straight flush (pokersolver names
\* a royal flush 'Straight Flush'), 2 quads, 3 full house, 4 flush,
\* 5 straight, 6 trips, 7 two pair, 8 pair, 9 high card
getRankClass(cards) ==
  LET rankCounts == countBy(MapRanks(cards))
      suitCounts == countBy(MapSuits(cards))
      ranks == DOMAIN rankCounts
      suited(s) == {rankInt(cards[k]) : k \in {i \in 1..Len(cards) :
                                                 suitChar(cards[i]) = s}}
      pairs == {r \in ranks : rankCounts[r] >= 2}
      trips == {r \in ranks : rankCounts[r] >= 3}
  IN IF \E s \in DOMAIN suitCounts : HasStraight(suited(s)) THEN 1
     ELSE IF \E r \in ranks : rankCounts[r] = 4 THEN 2
     ELSE IF \E r \in trips : pairs \ {r} # {} THEN 3
     ELSE IF \E s \in DOMAIN suitCounts : suitCounts[s] >= 5 THEN 4
     ELSE IF HasStraight(ranks) THEN 5
     ELSE IF trips # {} THEN 6
     ELSE IF Cardinality(pairs) >= 2 THEN 7
     ELSE IF pairs # {} THEN 8
     ELSE 9

(***************************************************************************)
(* engine/abstraction.js: hand buckets                                     *)
(***************************************************************************)
PREMIUM == "premium"
NUT == "nut"
STRONG == "strong"
GOOD == "good"
MEDIUM == "medium"
DRAW == "draw"
WEAK_MADE == "weak_made"
WEAK_DRAW == "weak_draw"
AIR == "air"

BUCKETS == <<PREMIUM, NUT, STRONG, GOOD, MEDIUM, DRAW, WEAK_MADE,
             WEAK_DRAW, AIR>>

\* cards.map(c => rankInt(c)).sort((a, b) => b - a)[k - 1]
RankDesc(cards, k) ==
  CHOOSE v \in {rankInt(cards[i]) : i \in 1..Len(cards)} :
    /\ Cardinality({i \in 1..Len(cards) : rankInt(cards[i]) > v}) < k
    /\ Cardinality({i \in 1..Len(cards) : rankInt(cards[i]) >= v}) >= k

RanksOf(cards) == {rankInt(cards[i]) : i \in 1..Len(cards)}

_hasOpenEnded(ranks) ==
  \E lo \in WithLowAce(ranks) :
    /\ \A k \in 0..3 : (lo + k) \in WithLowAce(ranks)
    /\ lo > -1
    /\ lo + 3 < 12

_hasGutshot(ranks) ==
  \E lo \in WithLowAce(ranks) :
    /\ (lo + 4) \in WithLowAce(ranks)
    /\ Cardinality(WithLowAce(ranks) \cap ((lo + 1)..(lo + 3))) = 2

_checkDraws(hand, board) ==
  LET allCards == hand \o board
      suitCounts == countBy(MapSuits(allCards))
      ranks == RanksOf(allCards)
      hasFlushDraw == \E s \in DOMAIN suitCounts : suitCounts[s] = 4
      hasOesd == _hasOpenEnded(ranks)
      hasGutshot == _hasGutshot(ranks)
  IN IF hasFlushDraw /\ (hasOesd \/ hasGutshot) THEN NUT
     ELSE IF hasFlushDraw THEN DRAW
     ELSE IF hasOesd THEN DRAW
     ELSE IF hasGutshot THEN WEAK_DRAW
     ELSE IF Len(board) = 3 /\ \E s \in DOMAIN suitCounts : suitCounts[s] = 3
     THEN WEAK_DRAW
     ELSE null

_classifyFlush(hand, board, texture) ==
  LET allCards == hand \o board
      suitCounts == countBy(MapSuits(allCards))
      flushSuit == CHOOSE s \in DOMAIN suitCounts :
                     \A t \in DOMAIN suitCounts : suitCounts[t] <= suitCounts[s]
      heroFlushRanks == {rankInt(hand[i]) :
                           i \in {k \in 1..2 : suitChar(hand[k]) = flushSuit}}
      bestHero == MaxOf(heroFlushRanks)
  IN IF heroFlushRanks = {} THEN GOOD
     ELSE IF bestHero = 12 THEN PREMIUM
     ELSE IF bestHero >= 10 THEN NUT
     ELSE STRONG

_straightUsesBoth(hand, board) == RanksOf(hand) \cap RanksOf(board) = {}

_classifyStraight(hand, board, texture) ==
  LET usesBoth == _straightUsesBoth(hand, board)
      isWet == texture = "wet" \/ texture = "monotone"
  IN IF usesBoth THEN (IF isWet THEN STRONG ELSE NUT)
     ELSE (IF isWet THEN GOOD ELSE STRONG)

_classifyTrips(hand, board, texture) ==
  LET topBoard == RankDesc(board, 1)
      isSet == rankInt(hand[1]) = rankInt(hand[2])
      isScary == texture = "wet" \/ texture = "monotone"
      tripRank == rankInt(hand[1])
  IN IF isSet
     THEN IF tripRank = topBoard THEN (IF isScary THEN NUT ELSE PREMIUM)
          ELSE (IF isScary THEN STRONG ELSE NUT)
     ELSE (IF isScary THEN GOOD ELSE STRONG)

_classifyTwoPair(hand, board, texture) ==
  LET topBoard == RankDesc(board, 1)
      secondBoard == IF Len(board) > 1 THEN RankDesc(board, 2) ELSE 0
      isScary == texture = "wet" \/ texture = "monotone"
      heroPaired == {k \in 1..2 : rankInt(hand[k]) \in RanksOf(board)}
  IN IF Cardinality(heroPaired) >= 2
     THEN IF RankDesc(hand, 1) = topBoard /\ RankDesc(hand, 2) = secondBoard
          THEN (IF isScary THEN STRONG ELSE NUT)
          ELSE (IF isScary THEN GOOD ELSE STRONG)
     ELSE (IF isScary THEN GOOD ELSE STRONG)

_classifyPair(hand, board, texture) ==
  LET hi == RankDesc(hand, 1)
      lo == RankDesc(hand, 2)
      topBoard == RankDesc(board, 1)
      secondBoard == IF Len(board) > 1 THEN RankDesc(board, 2) ELSE -1
      thirdBoard == IF Len(board) > 2 THEN RankDesc(board, 3) ELSE -1
      isScary == texture = "wet" \/ texture = "monotone"
      kicker == IF lo = topBoard THEN hi ELSE lo
      draw == _checkDraws(hand, board)
  IN IF hi = lo /\ hi > topBoard
     THEN IF hi >= 10 THEN (IF isScary THEN GOOD ELSE STRONG)
          ELSE IF hi >= 8 THEN (IF isScary THEN MEDIUM ELSE GOOD)
          ELSE MEDIUM
     ELSE IF hi = topBoard \/ lo = topBoard
     THEN IF kicker >= 12 THEN (IF isScary THEN GOOD ELSE STRONG)
          ELSE IF kicker >= 9 THEN (IF isScary THEN MEDIUM ELSE GOOD)
          ELSE MEDIUM
     ELSE IF hi = secondBoard \/ lo = secondBoard
     THEN IF draw = DRAW THEN DRAW
          ELSE (IF isScary THEN WEAK_MADE ELSE MEDIUM)
     ELSE IF hi = thirdBoard \/ lo = thirdBoard THEN WEAK_MADE
     ELSE IF hi = lo /\ hi < topBoard
     THEN (IF hi > secondBoard THEN MEDIUM ELSE WEAK_MADE)
     ELSE IF draw # null THEN draw
     ELSE WEAK_MADE

_classifyUnmade(hand, board, texture) ==
  LET draw == _checkDraws(hand, board)
      hi == RankDesc(hand, 1)
  IN IF draw # null THEN draw
     ELSE IF hi > RankDesc(board, 1)
     THEN (IF hi >= 11 THEN WEAK_DRAW ELSE AIR)
     ELSE AIR

classifyHand(hand, board, textureArg) ==
  LET texture == IF textureArg = null THEN classifyTexture(board)
                 ELSE textureArg
      rankClass == getRankClass(hand \o board)
  IN IF rankClass <= 3 THEN PREMIUM
     ELSE IF rankClass = 4 THEN _classifyFlush(hand, board, texture)
     ELSE IF rankClass = 5 THEN _classifyStraight(hand, board, texture)
     ELSE IF rankClass = 6 THEN _classifyTrips(hand, board, texture)
     ELSE IF rankClass = 7 THEN _classifyTwoPair(hand, board, texture)
     ELSE IF rankClass = 8 THEN _classifyPair(hand, board, texture)
     ELSE _classifyUnmade(hand, board, texture)

(***************************************************************************)
(* engine/postflop.js (the 8-texture version): strategy tables.            *)
(* A probability is a whole number of per cent (0.25 is 25); a strategy is *)
(* a function from action names to per cents.  strategyTables holds the    *)
(* three module-level tables OOP_STRATEGY, IP_VS_CHECK and FACING_BET.     *)
(***************************************************************************)
_OOP_DEFAULTS ==
  [ premium |-> [check |-> 25, bet_m |-> 25, bet_l |-> 50],
    nut |-> [check |-> 20, bet_m |-> 30, bet_l |-> 50],
    strong |-> [check |-> 20, bet_m |-> 55, bet_l |-> 25],
    two_pair |-> [check |-> 25, bet_m |-> 50, bet_l |-> 25],
    top_pair |-> [check |-> 35, bet_s |-> 25, bet_m |-> 40],
    overpair |-> [check |-> 40, bet_s |-> 25, bet_m |-> 35],
    mid_pair |-> [check |-> 60, bet_s |-> 25, bet_m |-> 15],
    underpair |-> [check |-> 70, bet_s |-> 20, bet_m |-> 10],
    nut_draw |-> [check |-> 25, bet_m |-> 40, bet_l |-> 35],
    draw |-> [check |-> 40, bet_s |-> 30, bet_m |-> 30],
    weak_made |-> [check |-> 80, bet_s |-> 20],
    gutshot |-> [check |-> 75, bet_s |-> 25],
    air |-> [check |-> 65, bet_s |-> 10, bet_l |-> 25] ]

_IP_DEFAULTS ==
  [ premium |-> [check |-> 20, bet_m |-> 25, bet_l |-> 55],
    nut |-> [check |-> 15, bet_m |-> 35, bet_l |-> 50],
    strong |-> [check |-> 15, bet_m |-> 60, bet_l |-> 25],
    two_pair |-> [check |-> 20, bet_m |-> 55, bet_l |-> 25],
    top_pair |-> [check |-> 25, bet_s |-> 30, bet_m |-> 45],
    overpair |-> [check |-> 30, bet_s |-> 35, bet_m |-> 35],
    mid_pair |-> [check |-> 45, bet_s |-> 35, bet_m |-> 20],
    underpair |-> [check |-> 55, bet_s |-> 30, bet_m |-> 15],
    nut_draw |-> [check |-> 15, bet_m |-> 45, bet_l |-> 40],
    draw |-> [check |-> 25, bet_s |-> 35, bet_m |-> 40],
    weak_made |-> [check |-> 65, bet_s |-> 35],
    gutshot |-> [check |-> 55, bet_s |-> 45],
    air |-> [check |-> 45, bet_s |-> 15, bet_l |-> 40] ]

_FB_DEFAULTS ==
  [ premium |-> [call |-> 30, raise |-> 70],
    nut |-> [call |-> 40, raise |-> 60],
    strong |-> [call |-> 80, raise |-> 20],
    two_pair |-> [call |-> 75, raise |-> 25],
    top_pair |-> [call |-> 75, fold |-> 10, raise |-> 15],
    overpair |-> [call |-> 70, fold |-> 15, raise |-> 15],
    mid_pair |-> [call |-> 55, fold |-> 45],
    underpair |-> [call |-> 40, fold |-> 60],
    nut_draw |-> [call |-> 45, raise |-> 35, fold |-> 20],
    draw |-> [call |-> 50, raise |-> 20, fold |-> 30],
    weak_made |-> [fold |-> 55, call |-> 45],
    gutshot |-> [fold |-> 60, call |-> 40],
    air |-> [fold |-> 70, raise |-> 15, call |-> 15] ]

_BUCKETS ==
  <<"premium", "nut", "strong", "two_pair", "top_pair", "overpair",
    "mid_pair", "underpair", "nut_draw", "draw", "weak_made", "gutshot",
    "air">>

\* the table built from the defaults: one entry `prefix tex|bkt` for every
\* texture and bucket, a copy of defaults[bkt] || fallback
DefaultTable(prefix, defaults, fallback) ==
  LET entries == {<<prefix \o tex \o "|" \o bkt,
                    IF bkt \in DOMAIN defaults THEN defaults[bkt]
                    ELSE fallback>> :
                    tex \in Range(TEXTURES), bkt \in Range(_BUCKETS)}
  IN [key \in {e[1] : e \in entries} |->
        (CHOOSE e \in entries : e[1] = key)[2]]

\* the entries [bkt, strat] of the file for the textures of TEXTURES, in
\* one section (OOP, IP or FACING_BET) that may be missing, as pairs
\* <<table key, strat>>
FileEntries(prefix, strats, section) ==
  LET texs == IF section \in DOMAIN strats THEN strats[section] ELSE <<>>
  IN UNION {{<<prefix \o tex \o "|" \o bkt, texs[tex][bkt]>> :
               bkt \in DOMAIN texs[tex]} :
              tex \in Range(TEXTURES) \cap DOMAIN texs}

\* (mutant) an entry of the file replaces the default even when it is empty
OverrideFromAnyEntry(table, prefix, strats, section) ==
  LET used == FileEntries(prefix, strats, section)
  IN [key \in DOMAIN table \cup {e[1] : e \in used} |->
        IF \E e \in used : e[1] = key
        THEN (CHOOSE e \in used : e[1] = key)[2]
        ELSE table[key]]

\* one section of _loadStrategies: every entry of the file with at least
\* one action is assigned to its key of the table
OverrideFrom(table, prefix, strats, section) ==
  LET used == {e \in FileEntries(prefix, strats, section) :
                 DOMAIN e[2] # {}}
  IN [key \in DOMAIN table \cup {e[1] : e \in used} |->
        IF \E e \in used : e[1] = key
        THEN (CHOOSE e \in used : e[1] = key)[2]
        ELSE table[key]]

\* the imported document: {} when it is null or undefined, {doc} otherwise;
\* a JSON object is a function of its keys
HasStrategies(data) == \E doc \in data : "strategies" \in DOMAIN doc

StrategiesOf(data) == (CHOOSE doc \in data : TRUE).strategies

\* the tables as the module builds them before _loadStrategies runs
BuiltTables ==
  [OOP_STRATEGY |-> DefaultTable("OOP|", _OOP_DEFAULTS, [check |-> 100]),
   IP_VS_CHECK |-> DefaultTable("IP|", _IP_DEFAULTS, [check |-> 100]),
   FACING_BET |-> DefaultTable("", _FB_DEFAULTS, [fold |-> 50, call |-> 50])]

_loadStrategies(tables, data) ==
  IF ~HasStrategies(data) THEN tables
  ELSE [OOP_STRATEGY |->
          OverrideFrom(tables.OOP_STRATEGY, "OOP|", StrategiesOf(data), "OOP"),
        IP_VS_CHECK |->
          OverrideFrom(tables.IP_VS_CHECK, "IP|", StrategiesOf(data), "IP"),
        FACING_BET |->
          OverrideFrom(tables.FACING_BET, "", StrategiesOf(data),
                       "FACING_BET")]

\* table[key] || fallback
LookUp(table, key, fallback) ==
  IF key \in DOMAIN table THEN table[key] ELSE fallback

getStrategy(position, texture, bucket, facingBet) ==
  IF facingBet
  THEN LookUp(strategyTables.FACING_BET, texture \o "|" \o bucket,
              [fold |-> 50, call |-> 50])
  ELSE IF position = "OOP"
  THEN LookUp(strategyTables.OOP_STRATEGY,
              "OOP|" \o texture \o "|" \o bucket, [check |-> 100])
  ELSE LookUp(strategyTables.IP_VS_CHECK,
              "IP|" \o texture \o "|" \o bucket, [check |-> 100])

\* Object.entries(strategy): the entries in the insertion order of the
\* keys.  A strategy is modelled without that order, so every order of its
\* keys is one the entries can have.
EntryOrders(strat) ==
  {order \in [1..Cardinality(DOMAIN strat) -> DOMAIN strat] :
     Range(order) = DOMAIN strat}

\* entries.sort((a, b) => b[1] - a[1]): by decreasing probability, entries
\* of equal probability in their order in the array (the sort is stable)
SortedByProb(strat, order) ==
  LET at(a) == CHOOSE i \in 1..Len(order) : order[i] = a
      before(b, a) == \/ strat[b] > strat[a]
                      \/ strat[b] = strat[a] /\ at(b) < at(a)
  IN [k \in 1..Len(order) |->
        CHOOSE a \in DOMAIN strat :
          Cardinality({b \in DOMAIN strat : before(b, a)}) = k - 1]

\* (mutant) the second action is also looked at when the best has 50%
getCorrectActionsNoEarlyReturn(strat) ==
  {LET sorted == SortedByProb(strat, order)
   IN IF Len(sorted) > 1 /\ strat[sorted[2]] >= 25
      THEN <<sorted[1], sorted[2]>>
      ELSE <<sorted[1]>> : order \in EntryOrders(strat)}

\* the arrays getCorrectActions can return for the strategy, one for every
\* order of its entries
getCorrectActions(strat) ==
  {LET sorted == SortedByProb(strat, order)
   IN IF strat[sorted[1]] >= 50 THEN <<sorted[1]>>
      ELSE IF Len(sorted) > 1 /\ strat[sorted[2]] >= 25
      THEN <<sorted[1], sorted[2]>>
      ELSE <<sorted[1]>> : order \in EntryOrders(strat)}

(***************************************************************************)
(* engine/rangeTracker.js: narrowPostflop                                  *)
(***************************************************************************)
NOISE == 30

\* (mutant) a combination is discarded only when its first card is blocked
validCombosFirstCard(handKey, blockedCards) ==
  {combo \in expandHandKey(handKey) : combo[1] \notin blockedCards}

\* combos.filter(([c1, c2]) => !blockedCards.has(c1) && !blockedCards.has(c2))
validCombos(handKey, blockedCards) ==
  {combo \in expandHandKey(handKey) :
     combo[1] \notin blockedCards /\ combo[2] \notin blockedCards}

\* strategy[action] || 0
ProbOf(strat, action) ==
  IF action \in DOMAIN strat THEN strat[action] ELSE 0

\* the bucket of every combination of the key that is left by the blocked
\* cards: validCombos, and classifyHand of each
comboBuckets(handKey, boardStrs, blockedCards, texture) ==
  [combo \in validCombos(handKey, blockedCards) |->
     classifyHand(combo, boardStrs, texture)]

\* the hands in which the villain is observed postflop: the visible board,
\* the other cards known to the observer, and the noise of the caller
HandContexts ==
  << [board |-> <<"9s", "5h", "3d">>, known |-> {"Ah", "Kd"}, noise |-> NOISE],
     [board |-> <<"9s", "9h", "3d">>, known |-> {"9d", "Kd"}, noise |-> NOISE],
     [board |-> <<"Ks", "Qs", "7s", "2d">>, known |-> {}, noise |-> 0] >>

\* new Set([...boardVis, ...hero.hand_strs])
Blocked(context) == Range(context.board) \cup context.known

\* comboBuckets is a pure function: its values for the boards and blocked
\* cards of HandContexts are tabulated once (f @@ << >> is f, held as a
\* table of values)
TabulatedBuckets ==
  [c \in DOMAIN HandContexts |->
     [handKey \in Range(allHandKeys) |->
        comboBuckets(handKey, HandContexts[c].board, Blocked(HandContexts[c]),
                     classifyTexture(HandContexts[c].board)) @@ << >>]
       @@ << >>] @@ << >>

\* the boards the hands of the street specification are dealt: the turn
\* pairs the flop; the turn brings a third heart; the turn changes no count
\* of the flop and the river pairs the turn
DealtBoards ==
  { <<"Ks", "Qd", "7h", "7s", "2s">>,
    <<"Ah", "Kh", "2c", "5h", "9d">>,
    <<"Kc", "8d", "3h", "2s", "2d">> }

\* the hero's hand in those hands
DealtHero == <<"Ad", "Td">>

\* the visible boards of those hands, on the flop, the turn and the river
DealtVisible == {SubSeq(board, 1, n) : board \in DealtBoards, n \in 3..5}

\* comboBuckets for those visible boards, tabulated once as well
DealtBuckets ==
  [boardStrs \in DealtVisible |->
     [handKey \in Range(allHandKeys) |->
        comboBuckets(handKey, boardStrs,
                     Range(boardStrs) \cup Range(DealtHero),
                     classifyTexture(boardStrs)) @@ << >>]
       @@ << >>] @@ << >>

\* comboBuckets of every key, from the table where it has the arguments
bucketsByKey(boardStrs, blockedCards, texture) ==
  LET tabulated == {c \in DOMAIN HandContexts :
                      /\ HandContexts[c].board = boardStrs
                      /\ Blocked(HandContexts[c]) = blockedCards
                      /\ classifyTexture(boardStrs) = texture}
  IN IF tabulated # {} THEN TabulatedBuckets[CHOOSE c \in tabulated : TRUE]
     ELSE IF /\ boardStrs \in DealtVisible
             /\ blockedCards = Range(boardStrs) \cup Range(DealtHero)
             /\ classifyTexture(boardStrs) = texture
     THEN DealtBuckets[boardStrs]
     ELSE [handKey \in Range(allHandKeys) |->
             comboBuckets(handKey, boardStrs, blockedCards, texture)]

RECURSIVE SumProbs(_, _)
SumProbs(probs, combos) ==
  IF combos = {} THEN 0
  ELSE LET combo == CHOOSE c \in combos : TRUE
       IN probs[combo] + SumProbs(probs, combos \ {combo})

\* totalProb / validCombos.length
avgGtoProb(buckets, texture, posLabel, action, facingBet) ==
  LET probs == [combo \in DOMAIN buckets |->
                  ProbOf(getStrategy(posLabel, texture, buckets[combo],
                                     facingBet),
                         action)]
  IN Frac(SumProbs(probs, DOMAIN buckets), 100 * Cardinality(DOMAIN buckets))

\* the probability of the action under a uniformly random choice:
\* noise > 0 && randomActions.includes(action) ? 1 / randomActions.length : 0
pRandom(action, facingBet, noise) ==
  LET randomActions == IF facingBet THEN {"call", "fold", "raise"}
                       ELSE {"check", "bet_m"}
  IN IF noise > 0 /\ action \in randomActions
     THEN Frac(1, Cardinality(randomActions))
     ELSE ZERO

\* (mutant) the noise term is added unweighted
pEffectiveUnweighted(avg, random, noise) ==
  FracAdd(FracMul(Frac(100 - noise, 100), avg), random)

\* (1 - noise) * avgGtoProb + noise * pRandom
pEffective(avg, random, noise) ==
  FracAdd(FracMul(Frac(100 - noise, 100), avg),
          FracMul(Frac(noise, 100), random))

\* (mutant) no floor
FlooredNot(p) == p

\* Math.max(pEffective, 0.001)
Floored(p) == FracMax(p, Frac(1, 1000))

\* the largest of the weights of the keys (0 when there is none)
MaxWeightOf(weights, keys) ==
  LET values == {weights[k] : k \in keys}
  IN IF values = {} THEN ZERO
     ELSE CHOOSE w \in values : \A v \in values : ~FracLess(w, v)

\* (mutant) the weights are not rescaled
NormalizeSkipped(weights, maxWeight) == weights

\* if (maxWeight > 0) every positive weight is divided by maxWeight
Normalize(weights, maxWeight) ==
  IF maxWeight.num > 0
  THEN [key \in DOMAIN weights |->
          IF weights[key].num > 0 THEN FracDiv(weights[key], maxWeight)
          ELSE weights[key]]
  ELSE weights

narrowPostflop(range, boardStrs, blockedCards, posLabel, action, facingBet, noise) ==
  IF action = "fold" THEN ZeroOut(range)
  ELSE
    LET texture == classifyTexture(boardStrs)
        random == pRandom(action, facingBet, noise)
        buckets == bucketsByKey(boardStrs, blockedCards, texture)
        newWeight(handKey) ==
          IF range[handKey].num <= 0 THEN range[handKey]
          ELSE IF DOMAIN buckets[handKey] = {} THEN ZERO
          ELSE FracMul(range[handKey],
                       Floored(pEffective(
                         avgGtoProb(buckets[handKey], texture, posLabel,
                                    action, facingBet),
                         random, noise)))
        weights == [handKey \in DOMAIN range |-> newWeight(handKey)]
        \* maxWeight runs over the keys that were scored
        scored == {handKey \in DOMAIN range :
                     /\ range[handKey].num > 0
                     /\ DOMAIN buckets[handKey] # {}}
    IN Normalize(weights, MaxWeightOf(weights, scored))

(***************************************************************************)
(* The range tracker as a state machine: the estimated range of one        *)
(* villain, created by initVillainRange for the villain's position         *)
(* (initRangesForState) and narrowed by every action the villain is seen   *)
(* to take, first preflop (narrowPreflop) and then postflop                *)
(* (narrowPostflop).  observed is the call that produced estimated_range.  *)
(***************************************************************************)
MaxPostflopUpdates == 1

\* the positions of ranges.js and of POSITIONS_BY_COUNT
TrackedPositions == {"UTG", "MP", "HJ", "CO", "BTN", "SB", "BB"}

PreflopActions == {"fold", "call", "raise"}

\* the postflop actions a player can be seen to take, with facingBet
PostflopActions ==
  ({"check", "bet_s", "bet_m", "bet_l"} \X {FALSE})
    \cup ({"call", "raise", "fold"} \X {TRUE})

\* ipPositions.has(player.position) ? 'IP' : 'OOP'
PosLabel(position) == IF position \in {"BTN", "CO"} THEN "IP" ELSE "OOP"

Observation(fn, position, action, openerPos, context, facingBet, updates) ==
  [fn |-> fn, position |-> position, action |-> action,
   openerPos |-> openerPos, context |-> context, facingBet |-> facingBet,
   updates |-> updates]

InitRange ==
  /\ simState = generateMultiwayHand(6, Stacks(6), 1, 0)
  /\ pc = "initRangesForState"
  /\ hands = <<>>
  /\ resolved = NoShowdown
  /\ strategiesData = {}
  /\ strategyTables = _loadStrategies(BuiltTables, {})
  /\ strategy = <<>>
  /\ returned = null
  /\ \E position \in TrackedPositions :
       /\ estimated_range = initVillainRange(position)
       /\ observed = Observation("initVillainRange", position, null, null,
                                 0, FALSE, 0)

NarrowPreflop ==
  /\ pc \in {"initRangesForState", "narrowPreflop"}
  /\ \E action \in PreflopActions :
       \E openerPos \in TrackedPositions \cup {null} :
         /\ estimated_range' = narrowPreflop(estimated_range,
                                 observed.position, action, openerPos)
         /\ observed' = Observation("narrowPreflop", observed.position,
                                    action, openerPos, 0, FALSE, 0)
  /\ pc' = "narrowPreflop"
  /\ UNCHANGED <<simState, hands, resolved>>
  /\ UNCHANGED strategyVars

NarrowPostflop ==
  /\ pc \in {"initRangesForState", "narrowPreflop", "narrowPostflop"}
  /\ observed.updates < MaxPostflopUpdates
  /\ \E c \in 1..Len(HandContexts) : \E act \in PostflopActions :
       /\ observed.context \in {0, c}
       /\ estimated_range' =
            narrowPostflop(estimated_range, HandContexts[c].board,
                           Blocked(HandContexts[c]),
                           PosLabel(observed.position), act[1], act[2],
                           HandContexts[c].noise)
       /\ observed' = Observation("narrowPostflop", observed.position,
                                  act[1], null, c, act[2],
                                  observed.updates + 1)
  /\ pc' = "narrowPostflop"
  /\ UNCHANGED <<simState, hands, resolved>>
  /\ UNCHANGED strategyVars

NextRange ==
  \/ NarrowPreflop
  \/ NarrowPostflop

SpecRange == InitRange /\ [][NextRange]_vars

(***************************************************************************)
(* The strategy tables as a state machine: the module is imported with a   *)
(* strategies document that may be absent (strategiesData), the tables are *)
(* built from the defaults, _loadStrategies overrides them from the        *)
(* document, and getStrategy is then called with any arguments.            *)
(***************************************************************************)
\* an entry of the file with no action
EMPTY_ENTRY == << >>

\* the documents the module is imported with: none; one without the
\* `strategies` member; one whose sections hold a full entry, an empty
\* entry, an entry for a bucket the tables do not have and a texture that
\* is not in TEXTURES, with the section IP missing; one with entries in
\* every section
StrategyDocuments ==
  { {},
    {[version |-> 1]},
    {[version |-> 1,
      strategies |->
        [OOP |-> [low_dry |-> [air |-> [bet_s |-> 100],
                               nut |-> EMPTY_ENTRY,
                               good |-> [check |-> 50, bet_m |-> 50]],
                  wet |-> [air |-> [bet_l |-> 100]]],
         FACING_BET |-> [monotone |-> [draw |-> [call |-> 100],
                                       air |-> EMPTY_ENTRY]]]]},
    {[version |-> 1,
      strategies |->
        [OOP |-> [paired |-> [premium |-> EMPTY_ENTRY]],
         IP |-> [low_dry |-> [air |-> EMPTY_ENTRY,
                              draw |-> [check |-> 100],
                              nut |-> [check |-> 40, bet_s |-> 20,
                                       bet_m |-> 20, bet_l |-> 20]]],
         FACING_BET |-> [paired |-> [gutshot |-> [fold |-> 100]]]]]} }

\* the arguments getStrategy is called with: the textures and buckets of
\* the tables, a texture that is in no table and the buckets of
\* abstraction.js
StrategyPositions == {"OOP", "IP"}
StrategyTextures == Range(TEXTURES) \cup {"wet"}
StrategyBuckets == Range(_BUCKETS) \cup Range(BUCKETS)

InitStrategy ==
  /\ simState = generateMultiwayHand(6, Stacks(6), 1, 0)
  /\ pc = "import"
  /\ hands = <<>>
  /\ resolved = NoShowdown
  /\ estimated_range = null
  /\ observed = null
  /\ strategiesData \in StrategyDocuments
  /\ strategyTables = BuiltTables
  /\ strategy = <<>>
  /\ returned = null

LoadStrategies ==
  /\ pc = "import"
  /\ strategyTables' = _loadStrategies(strategyTables, strategiesData)
  /\ pc' = "loaded"
  /\ UNCHANGED <<simState, hands, resolved, strategiesData, strategy, returned>>
  /\ UNCHANGED trackerVars

\* the tables do not change once they are loaded and a call leaves nothing
\* behind, so a call made after another reaches the states of a first call
GetStrategy ==
  /\ pc = "loaded"
  /\ \E position \in StrategyPositions : \E texture \in StrategyTextures :
       \E bucket \in StrategyBuckets : \E facingBet \in BOOLEAN :
         /\ strategy' = getStrategy(position, texture, bucket, facingBet)
         /\ observed' = [fn |-> "getStrategy", position |-> position,
                         texture |-> texture, bucket |-> bucket,
                         facingBet |-> facingBet]
  /\ pc' = "getStrategy"
  /\ UNCHANGED <<simState, hands, resolved, strategiesData, strategyTables,
                 estimated_range, returned>>

\* getCorrectActions(strategy) on the strategy getStrategy returned
GetCorrectActions ==
  /\ pc = "getStrategy"
  /\ returned' \in getCorrectActions(strategy)
  /\ pc' = "getCorrectActions"
  /\ UNCHANGED <<simState, hands, resolved, strategiesData, strategyTables,
                 strategy>>
  /\ UNCHANGED trackerVars

NextStrategy ==
  \/ LoadStrategies
  \/ GetStrategy
  \/ GetCorrectActions

SpecStrategy == InitStrategy /\ [][NextStrategy]_vars

(***************************************************************************)
(* The postflop streets of one villain of a multiway hand, with the cards: *)
(* mwAdvanceStreet uncovers the board, and mwVillainAct draws the          *)
(* villain's action (villainPostflopAct) and narrows the villain's         *)
(* estimated range (narrowPostflop), both on the visible board.  Of        *)
(* simState only the fields these read are kept.  observed is the call of  *)
(* mwVillainAct, with the texture that the two functions computed.         *)
(***************************************************************************)
\* state.board_strs.slice(0, state.board_visible)
boardVis(state) == SubSeq(state.board_strs, 1, state.board_visible)

\* the actions villainPostflopAct can return: one of the random actions
\* (Math.random() < noise), 'fold' or 'check' for a strategy of total 0,
\* or an action of the strategy drawn by weightedChoice
villainPostflopActOnBoard(handStrs, boardStrs, position, facingBet) ==
  LET texture == classifyTexture(boardStrs)
      bucket == classifyHand(handStrs, boardStrs, texture)
      strat == getStrategy(position, texture, bucket, facingBet)
      drawn == {a \in DOMAIN strat : strat[a] > 0}
  IN (IF facingBet THEN {"call", "fold", "raise"} ELSE {"check", "bet_m"})
       \cup (IF drawn = {} THEN {IF facingBet THEN "fold" ELSE "check"}
             ELSE drawn)

InitTexture ==
  /\ \E board \in DealtBoards : \E position \in {"BTN", "BB"} :
       /\ simState = [street |-> "flop", board_strs |-> board,
                      board_visible |-> 3,
                      villain |-> [position |-> position,
                                   hand_strs |-> <<"Qs", "Js">>],
                      hero |-> [hand_strs |-> DealtHero]]
       /\ estimated_range = initVillainRange(position)
  /\ pc = "mwRunUntilHero"
  /\ hands = <<>>
  /\ resolved = NoShowdown
  /\ observed = [fn |-> "initVillainRange", updates |-> 0]
  /\ strategiesData = {}
  /\ strategyTables = _loadStrategies(BuiltTables, {})
  /\ strategy = <<>>
  /\ returned = null

\* mwAdvanceStreet, from the flop on
AdvanceStreet ==
  /\ simState.street \in {"flop", "turn"}
  /\ simState' = [simState EXCEPT
                    !.street = IF simState.street = "flop" THEN "turn"
                               ELSE "river",
                    !.board_visible = simState.board_visible + 1]
  /\ UNCHANGED <<pc, hands, resolved>>
  /\ UNCHANGED trackerVars
  /\ UNCHANGED strategyVars

\* mwVillainAct on a postflop street; a villain that folds is not narrowed
VillainActs ==
  /\ observed.updates < MaxPostflopUpdates
  /\ \E facingBet \in BOOLEAN :
       LET position == simState.villain.position
           vPos == IF position \in {"BTN", "CO"} THEN "IP" ELSE "OOP"
           blocked == Range(boardVis(simState))
                        \cup Range(simState.hero.hand_strs)
       IN \E action \in villainPostflopActOnBoard(
                            simState.villain.hand_strs, boardVis(simState),
                            vPos, facingBet) :
            /\ estimated_range' =
                 IF action = "fold" THEN estimated_range
                 ELSE narrowPostflop(estimated_range, boardVis(simState),
                                     blocked, vPos, action, facingBet, NOISE)
            /\ observed' = [fn |-> "mwVillainAct",
                            street |-> simState.street,
                            action |-> action, facingBet |-> facingBet,
                            texture |-> classifyTexture(boardVis(simState)),
                            updates |-> observed.updates + 1]
  /\ UNCHANGED tableVars
  /\ UNCHANGED strategyVars

NextTexture ==
  \/ AdvanceStreet
  \/ VillainActs

SpecTexture == InitTexture /\ [][NextTexture]_vars

(***************************************************************************)
(* classifyTexture as the tests call it: on a flop of three distinct cards *)
(* of the deck, in the order they were drawn.                              *)
(***************************************************************************)
\* drawCards(deck, 3) of a shuffled deck: any three distinct cards, in any
\* order
Flops ==
  {board \in createDeck \X createDeck \X createDeck :
     board[1] # board[2] /\ board[1] # board[3] /\ board[2] # board[3]}

InitBoard ==
  /\ simState = [board_strs |-> <<>>]
  /\ pc = "createDeck"
  /\ hands = <<>>
  /\ resolved = NoShowdown
  /\ estimated_range = <<>>
  /\ observed = [fn |-> "createDeck"]
  /\ strategiesData = {}
  /\ strategyTables = <<>>
  /\ strategy = <<>>
  /\ returned = null

DrawFlop ==
  /\ pc = "createDeck"
  /\ \E board \in Flops : simState' = [board_strs |-> board]
  /\ pc' = "drawCards"
  /\ UNCHANGED <<hands, resolved>>
  /\ UNCHANGED trackerVars
  /\ UNCHANGED strategyVars

ClassifyTexture ==
  /\ pc = "drawCards"
  /\ returned' = classifyTexture(simState.board_strs)
  /\ pc' = "classifyTexture"
  /\ UNCHANGED <<simState, hands, resolved>>
  /\ UNCHANGED trackerVars
  /\ UNCHANGED <<strategiesData, strategyTables, strategy>>

NextBoard ==
  \/ DrawFlop
  \/ ClassifyTexture

SpecBoard == InitBoard /\ [][NextBoard]_vars

(***************************************************************************)
(* classifyHand as the tests call it: two hole cards and a board of three  *)
(* to five cards, the texture computed from the board.                     *)
(***************************************************************************)
\* the boards that are classified: the visible boards of the dealt hands,
\* and those of a board with three connected hearts and a paired river
ClassifiedBoards ==
  DealtVisible \cup {SubSeq(<<"Jh", "Th", "9h", "3c", "3d">>, 1, n) : n \in 3..5}

\* drawCards(deck, 2): any two distinct cards that are not on the board
HoleCards(board) ==
  {hand \in (createDeck \ Range(board)) \X (createDeck \ Range(board)) :
     hand[1] # hand[2]}

InitHand ==
  /\ simState = [hand_strs |-> <<>>, board_strs |-> <<>>]
  /\ pc = "createDeck"
  /\ hands = <<>>
  /\ resolved = NoShowdown
  /\ estimated_range = <<>>
  /\ observed = [fn |-> "createDeck"]
  /\ strategiesData = {}
  /\ strategyTables = <<>>
  /\ strategy = <<>>
  /\ returned = null

DrawHand ==
  /\ pc = "createDeck"
  /\ \E board \in ClassifiedBoards : \E hand \in HoleCards(board) :
       simState' = [hand_strs |-> hand, board_strs |-> board]
  /\ pc' = "drawCards"
  /\ UNCHANGED <<hands, resolved>>
  /\ UNCHANGED trackerVars
  /\ UNCHANGED strategyVars

ClassifyHand ==
  /\ pc = "drawCards"
  /\ returned' = classifyHand(simState.hand_strs, simState.board_strs,
                              classifyTexture(simState.board_strs))
  /\ pc' = "classifyHand"
  /\ UNCHANGED <<simState, hands, resolved>>
  /\ UNCHANGED trackerVars
  /\ UNCHANGED <<strategiesData, strategyTables, strategy>>

NextHand ==
  \/ DrawHand
  \/ ClassifyHand

SpecHand == InitHand /\ [][NextHand]_vars

(***************************************************************************)
(* A session of multiway hands: the hand of Spec, and the next-hand button *)
(* that deals the following hand and carries the session log into it.      *)
(* The stacks of a session are SessionStack big blinds.                    *)
(***************************************************************************)
\* the bounds of a session: the hands played, the seats, and the stacks in
\* big blinds
MaxHands == 2
SessionPlayers == 2
SessionStack == 2

\* Array(numPlayers).fill(100.0), with the bounded stack
SessionStacks(n) == [i \in 0..(n - 1) |-> SessionStack * BigBlind]

\* startMultiwaySession up to the call of mwRunUntilHero
InitSession ==
  /\ \E n \in 2..SessionPlayers :
       simState = generateMultiwayHand(n, SessionStacks(n), 1, 0)
  /\ pc = "mwRunUntilHero"
  /\ hands = <<>>
  /\ resolved = NoShowdown
  /\ estimated_range = null
  /\ observed = null
  /\ strategiesData = {}
  /\ strategyTables = <<>>
  /\ strategy = <<>>
  /\ returned = null

\* (mutant) the next hand starts with the log of generateMultiwayHand
NextHandClickFreshLog ==
  /\ pc = "hand_complete"
  /\ simState.hand_number < MaxHands
  /\ \E numPlayers \in 2..SessionPlayers :
       \E heroOffset \in 0..(numPlayers - 1) :
         LET handNumber == simState.hand_number + 1
             sessionLog == simState.session_log
         IN simState' =
              generateMultiwayHand(numPlayers, SessionStacks(numPlayers),
                                   handNumber, heroOffset)
  /\ pc' = "mwRunUntilHero"
  /\ hands' = <<>>
  /\ resolved' = NoShowdown
  /\ UNCHANGED trackerVars
  /\ UNCHANGED strategyVars

\* the click handler of #next-hand-btn up to the call of mwRunUntilHero
NextHandClick ==
  /\ pc = "hand_complete"
  /\ simState.hand_number < MaxHands
  /\ \E numPlayers \in 2..SessionPlayers :
       \E heroOffset \in 0..(numPlayers - 1) :
         LET handNumber == simState.hand_number + 1
             sessionLog == simState.session_log
         IN simState' =
              [generateMultiwayHand(numPlayers, SessionStacks(numPlayers),
                                    handNumber, heroOffset)
                 EXCEPT !.session_log = sessionLog]
  /\ pc' = "mwRunUntilHero"
  /\ hands' = <<>>
  /\ resolved' = NoShowdown
  /\ UNCHANGED trackerVars
  /\ UNCHANGED strategyVars

NextSession ==
  \/ RunLoop
  \/ FinishRound
  \/ HeroAction
  \/ NextHandClick

SpecSession == InitSession /\ [][NextSession]_vars

(***************************************************************************)
(* engine/simulate.js: computeSessionReview, on the logs of a session.     *)
(* A deviation is in per cent, a result in the units of the amounts.       *)
(***************************************************************************)
\* Math.round(x * 100) / 100 of x = units / n
RoundToHundredth(units, n) ==
  ((20 * units + n * Tenth) \div (2 * n * Tenth)) * (Tenth \div 10)

\* the records of the hands whose deviation is above 0.3, in log order
RECURSIVE allDeviations(_)
allDeviations(sessionLog) ==
  IF sessionLog = <<>> THEN <<>>
  ELSE LET hand == sessionLog[Len(sessionLog)]
           mistakes == SelectSeq(hand.actions, LAMBDA rec : rec.deviation > 30)
       IN allDeviations(SubSeq(sessionLog, 1, Len(sessionLog) - 1))
            \o [k \in 1..Len(mistakes) |->
                  [hand_num |-> hand.hand_num,
                   hero_hand |-> hand.hero_hand_key,
                   street |-> mistakes[k].street,
                   hero_action |-> mistakes[k].action,
                   gto_action |-> mistakes[k].gto_action,
                   deviation |-> mistakes[k].deviation]]

\* arr.sort((a, b) => b.deviation - a.deviation): by decreasing deviation,
\* records of equal deviation in their order in the array
SortedByDeviation(arr) ==
  LET before(i, j) == \/ arr[i].deviation > arr[j].deviation
                      \/ arr[i].deviation = arr[j].deviation /\ i < j
  IN [k \in 1..Len(arr) |->
        arr[CHOOSE j \in 1..Len(arr) :
              Cardinality({i \in 1..Len(arr) : before(i, j)}) = k - 1]]

RECURSIVE SumResults(_)
SumResults(sessionLog) ==
  IF sessionLog = <<>> THEN 0
  ELSE sessionLog[1].result_bb + SumResults(Tail(sessionLog))

\* (mutant) the review keeps every mistake
computeSessionReviewUncut(sessionLog) ==
  IF Len(sessionLog) = 0
  THEN [total_pl |-> 0, hands_played |-> 0, bb_per_hand |-> 0,
        biggest_win |-> 0, biggest_loss |-> 0, top_mistakes |-> <<>>]
  ELSE LET totalPl == SumResults(sessionLog)
           handsPlayed == Len(sessionLog)
           results == {sessionLog[k].result_bb : k \in 1..Len(sessionLog)}
           sorted == SortedByDeviation(allDeviations(sessionLog))
       IN [total_pl |-> RoundToTenth(totalPl, 100),
           hands_played |-> handsPlayed,
           bb_per_hand |-> RoundToHundredth(totalPl, handsPlayed),
           biggest_win |-> RoundToTenth(MaxOf(results), 100),
           biggest_loss |-> RoundToTenth(-MaxOf({-r : r \in results}), 100),
           top_mistakes |-> sorted]

computeSessionReview(sessionLog) ==
  IF Len(sessionLog) = 0
  THEN [total_pl |-> 0, hands_played |-> 0, bb_per_hand |-> 0,
        biggest_win |-> 0, biggest_loss |-> 0, top_mistakes |-> <<>>]
  ELSE LET totalPl == SumResults(sessionLog)
           handsPlayed == Len(sessionLog)
           results == {sessionLog[k].result_bb : k \in 1..Len(sessionLog)}
           sorted == SortedByDeviation(allDeviations(sessionLog))
       IN [total_pl |-> RoundToTenth(totalPl, 100),
           hands_played |-> handsPlayed,
           bb_per_hand |-> RoundToHundredth(totalPl, handsPlayed),
           biggest_win |-> RoundToTenth(MaxOf(results), 100),
           biggest_loss |-> RoundToTenth(-MaxOf({-r : r \in results}), 100),
           top_mistakes |-> SubSeq(sorted, 1, Min(5, Len(sorted)))]

\* an action record of current_hand_actions
ActionRecord(street, action, gtoAction, deviation) ==
  [street |-> street, action |-> action, gto_action |-> gtoAction,
   deviation |-> deviation]

\* the hands that are logged: the two hands of the test, a hand without a
\* hero action, and hands of up to four actions whose deviations are 0,
\* 0.2, 0.5 or 1
LoggedHands ==
  { [hero_hand_key |-> "AA", result_bb |-> 50 * Tenth,
     actions |-> <<ActionRecord("preflop", "raise", "raise", 0)>>],
    [hero_hand_key |-> "72o", result_bb |-> -20 * Tenth,
     actions |-> <<ActionRecord("preflop", "call", "fold", 100)>>],
    [hero_hand_key |-> "KQs", result_bb |-> 0,
     actions |-> <<>>],
    [hero_hand_key |-> "T9s", result_bb |-> -100 * Tenth,
     actions |-> <<ActionRecord("preflop", "call", "fold", 100),
                   ActionRecord("flop", "call", "raise", 50),
                   ActionRecord("turn", "call", "fold", 100)>>],
    [hero_hand_key |-> "AJo", result_bb |-> 35 * Tenth,
     actions |-> <<ActionRecord("preflop", "raise", "call", 20),
                   ActionRecord("flop", "bet_s", "bet_m", 50)>>],
    [hero_hand_key |-> "55", result_bb |-> -5 * Tenth,
     actions |-> <<ActionRecord("preflop", "call", "raise", 50),
                   ActionRecord("flop", "check", "bet_m", 100),
                   ActionRecord("turn", "check", "bet_s", 50),
                   ActionRecord("river", "call", "fold", 100)>>],
    [hero_hand_key |-> "AKs", result_bb |-> 120 * Tenth,
     actions |-> <<ActionRecord("flop", "bet_m", "bet_m", 0),
                   ActionRecord("turn", "bet_l", "bet_m", 20)>>],
    [hero_hand_key |-> "QJs", result_bb |-> -60 * Tenth,
     actions |-> <<ActionRecord("preflop", "raise", "fold", 100),
                   ActionRecord("flop", "bet_l", "check", 100)>>] }

InitReview ==
  /\ simState = [hand_number |-> 1, session_log |-> <<>>]
  /\ pc = "hand_complete"
  /\ hands = <<>>
  /\ resolved = NoShowdown
  /\ estimated_range = null
  /\ observed = null
  /\ strategiesData = {}
  /\ strategyTables = <<>>
  /\ strategy = <<>>
  /\ returned = null

\* a hand of the session is over: mwEndHand pushes its record
LogHand ==
  /\ pc = "hand_complete"
  /\ Len(simState.session_log) < MaxHands
  /\ \E hand \in LoggedHands :
       simState' =
         [hand_number |-> simState.hand_number + 1,
          session_log |->
            Append(simState.session_log,
                   [hand_num |-> simState.hand_number,
                    hero_hand_key |-> hand.hero_hand_key,
                    result_bb |-> hand.result_bb,
                    actions |-> hand.actions])]
  /\ UNCHANGED <<pc, hands, resolved>>
  /\ UNCHANGED trackerVars
  /\ UNCHANGED strategyVars

\* the click on #end-session-btn: renderSessionReview
SessionReview ==
  /\ pc = "hand_complete"
  /\ returned' = computeSessionReview(simState.session_log)
  /\ pc' = "renderSessionReview"
  /\ UNCHANGED <<simState, hands, resolved>>
  /\ UNCHANGED trackerVars
  /\ UNCHANGED <<strategiesData, strategyTables, strategy>>

NextReview ==
  \/ LogHand
  \/ SessionReview

SpecReview == InitReview /\ [][NextReview]_vars

(***************************************************************************)
(* Vocabulary of the properties.                                           *)
(***************************************************************************)
Seats(state) == 0..(state.num_players - 1)

ActiveSet(state) == {i \in Seats(state) : ~state.players[i].folded}

Aggressive == {"raise", "bet_s", "bet_m", "bet_l"}

\* the next step applies a player's action (a villain's in the loop, or the
\* hero's click), and Actor is that player
ActorTurn ==
  \/ pc = "hero_decision"
  \/ /\ LoopRunning
     /\ ~simState.players[CurrentIdx].folded
     /\ ~simState.players[CurrentIdx].is_hero

Actor == IF pc = "hero_decision" THEN simState.hero_idx ELSE CurrentIdx

\* the action that the step just taken applied
Played(state) == state.action_log[1].action

\* q lists every non-folded player other than p exactly once, in clockwise
\* order (index + 1 mod n) starting with the seat after p
IsClockwiseAfter(q, p, state) ==
  LET n == state.num_players
      dist(i) == (i + n - p) % n
  IN /\ Range(q) = ActiveSet(state) \ {p}
     /\ \A k \in 1..Len(q) : \A l \in 1..Len(q) :
          k < l => dist(q[k]) < dist(q[l])

(***************************************************************************)
(* C1: immediately after a player p bets or raises, action_queue is every  *)
(* other non-folded player exactly once, clockwise from the seat after p,  *)
(* and action_queue_pos is 0; after a check or a call the queue is         *)
(* unchanged and action_queue_pos has advanced by one.                     *)
(***************************************************************************)
C1_Step ==
  ActorTurn =>
    /\ simState'.action_log[1].actor = Actor
    /\ Played(simState') \in Aggressive =>
         /\ IsClockwiseAfter(simState'.action_queue, Actor, simState')
         /\ simState'.action_queue_pos = 0
    /\ Played(simState') \in {"check", "call"} =>
         /\ simState'.action_queue = simState.action_queue
         /\ simState'.action_queue_pos = simState.action_queue_pos + 1

C1_ReopenAfterRaise == [][C1_Step]_vars

\* a re-raise has just re-opened the action: the queue holds a player who
\* had already put chips in on this street, and a player has folded
C1_Witness ==
  /\ pc = "mwRunUntilHero"
  /\ simState.action_log # <<>>
  /\ Played(simState) = "raise"
  /\ simState.action_queue_pos = 0
  /\ simState.last_raiser_idx = simState.action_log[1].actor
  /\ simState.street = "flop"
  /\ ActiveSet(simState) # Seats(simState)
  /\ \E i \in Range(simState.action_queue) :
       simState.players[i].street_invested > 0

(***************************************************************************)
(* C2: whenever a betting round is closed (the queue is exhausted and      *)
(* mwFinishRound advances the street or resolves the showdown) every       *)
(* non-folded player's street_invested equals current_bet.                 *)
(***************************************************************************)
RoundClosing ==
  /\ pc = "mwRunUntilHero"
  /\ ~simState.hand_over
  /\ simState.action_queue_pos >= Len(simState.action_queue)

C2_NoOutstandingBet ==
  RoundClosing =>
    \A i \in ActiveSet(simState) :
      simState.players[i].street_invested = simState.current_bet

\* a postflop round closes on a call of a raise, three players still in
C2_Witness ==
  /\ RoundClosing
  /\ simState.street = "turn"
  /\ simState.current_bet > 0
  /\ Cardinality(ActiveSet(simState)) = 3
  /\ Played(simState) = "call"
  /\ \A i \in ActiveSet(simState) : simState.players[i].stack > 0

(***************************************************************************)
(* C3: a hand goes preflop -> flop -> turn -> river one street at a time   *)
(* (board_visible 0, 3, 4, 5), never backwards and never skipping, and     *)
(* hand_over becomes true only (a) by a fold that leaves exactly one       *)
(* non-folded player, who is the sole winner without showdown evaluation   *)
(* (sim_phase 'hand_over'), or (b) when the river betting round has        *)
(* completed, with the winners of the showdown (sim_phase 'showdown').     *)
(***************************************************************************)
BoardOf(street) ==
  CASE street = "preflop" -> 0
    [] street = "flop" -> 3
    [] street = "turn" -> 4
    [] street = "river" -> 5

NextStreet(street) ==
  CASE street = "preflop" -> "flop"
    [] street = "flop" -> "turn"
    [] street = "turn" -> "river"
    [] street = "river" -> "river"

\* the non-folded players of maximal evaluated strength
BestHands(state, handValues) ==
  {i \in ActiveSet(state) :
     \A j \in ActiveSet(state) : handValues[i] >= handValues[j]}

C3_StreetStep ==
  /\ simState'.street \in {"preflop", "flop", "turn", "river"}
  /\ simState'.board_visible = BoardOf(simState'.street)
  /\ \/ simState'.street = simState.street
     \/ /\ simState.street # "river"
        /\ simState'.street = NextStreet(simState.street)
        /\ ~simState'.hand_over

C3_FoldedOut ==
  /\ ActorTurn
  /\ Played(simState') = "fold"
  /\ simState'.players[Actor].folded
  /\ Cardinality(ActiveSet(simState')) = 1
  /\ Range(simState'.winner_idxs) = ActiveSet(simState')
  /\ Len(simState'.winner_idxs) = 1
  /\ simState'.sim_phase = "hand_over"
  /\ UNCHANGED <<hands, resolved>>

C3_Showdown ==
  /\ RoundClosing
  /\ simState.street = "river"
  /\ simState'.street = "river"
  /\ Cardinality(ActiveSet(simState')) > 1
  /\ Range(simState'.winner_idxs) = BestHands(simState', hands')
  /\ simState'.winner_idxs = resolved'.winner_idxs
  /\ simState'.sim_phase = "showdown"

C3_EndStep ==
  (~simState.hand_over /\ simState'.hand_over) => (C3_FoldedOut \/ C3_Showdown)

C3_Lifecycle == [][C3_StreetStep /\ C3_EndStep]_vars

\* a hand that went through every street to a showdown
C3_Witness ==
  /\ pc = "hand_complete"
  /\ simState.hand_over
  /\ simState.sim_phase = "showdown"
  /\ simState.street = "river"
  /\ simState.board_visible = 5
  /\ Range(simState.winner_idxs) = BestHands(simState, hands)

(***************************************************************************)
(* C4: at the end of a hand the whole pot is divided evenly among          *)
(* winner_idxs and added to the winners' stacks, no other stack changes,   *)
(* and the stacks then add up to the starting stacks.                      *)
(***************************************************************************)
SumOver(f, n) ==
  LET partial[k \in 0..n] == IF k = 0 THEN 0 ELSE partial[k - 1] + f[k - 1]
  IN partial[n]

SumStacks(state) ==
  SumOver([i \in Seats(state) |-> state.players[i].stack], state.num_players)

C4_EndStep ==
  (~simState.hand_over /\ simState'.hand_over) =>
    LET winners == Range(simState'.winner_idxs)
        k == Len(simState'.winner_idxs)
    IN /\ k = Cardinality(winners)
       /\ k > 0
       /\ simState'.pot = simState.pot
       /\ \A i \in Seats(simState) :
            IF i \in winners
            THEN k * (simState'.players[i].stack - simState.players[i].stack)
                   = simState.pot
            ELSE simState'.players[i].stack = simState.players[i].stack
       /\ SumStacks(simState') = simState.num_players * StartStack * BigBlind

C4_PotDistributed == [][C4_EndStep]_vars

\* a showdown that two of three players tie and the third loses
C4_Witness ==
  /\ simState.hand_over
  /\ simState.sim_phase = "showdown"
  /\ Len(simState.winner_idxs) = 2
  /\ Cardinality(ActiveSet(simState)) = 3
  /\ SumStacks(simState) = simState.num_players * StartStack * BigBlind

(***************************************************************************)
(* C5: resolveMultiwayShowdown returns as winner_idxs exactly the          *)
(* non-folded players of maximal hand strength, never a folded player;     *)
(* pot_shares gives every winner 1/|winner_idxs| (the shares sum to 1); a  *)
(* single non-folded player wins with share 1, and with no non-folded      *)
(* player the winner set is empty.                                         *)
(***************************************************************************)
C5_ShowdownWinners ==
  pc = "resolved" =>
    LET winners == Range(resolved.winner_idxs)
        k == Len(resolved.winner_idxs)
        active == ActiveSet(simState)
    IN /\ k = Cardinality(winners)
       /\ winners = BestHands(simState, hands)
       /\ winners \subseteq active
       /\ DOMAIN resolved.pot_shares = winners
       /\ \A w \in winners :
            /\ resolved.pot_shares[w].num = 1
            /\ resolved.pot_shares[w].den = k
       /\ (winners # {}) =>
            SumOver([j \in 0..(k - 1) |->
                       resolved.pot_shares[resolved.winner_idxs[j + 1]].num],
                    k)
              = resolved.pot_shares[resolved.winner_idxs[1]].den
       /\ (Cardinality(active) = 1) => (winners = active /\ k = 1)
       /\ (active = {}) => (k = 0)

\* a tie of two non-folded players while a folded player holds a hand at
\* least as strong
C5_Witness ==
  /\ pc = "resolved"
  /\ Len(resolved.winner_idxs) = 2
  /\ Cardinality(ActiveSet(simState)) = 3
  /\ \E f \in Seats(simState) \ ActiveSet(simState) :
       \A i \in ActiveSet(simState) : hands[f] >= hands[i]

(***************************************************************************)
(* C6: control returns from mwRunUntilHero / mwProcessHeroAction waiting   *)
(* for a hero decision only when the hand is not over, the hero has not    *)
(* folded and action_queue[action_queue_pos] is the hero; otherwise the    *)
(* hand is over; and a folded player never acts or puts chips in the pot.  *)
(***************************************************************************)
C6_Returned ==
  /\ pc \in {"mwRunUntilHero", "hero_decision", "hand_complete"}
  /\ pc = "hero_decision" =>
       /\ simState.sim_phase =
            (IF simState.street = "preflop" THEN "preflop_decision"
             ELSE "postflop_decision")
       /\ ~simState.hand_over
       /\ ~simState.players[simState.hero_idx].folded
       /\ simState.players[simState.hero_idx].is_hero
       /\ simState.action_queue_pos < Len(simState.action_queue)
       /\ CurrentIdx = simState.hero_idx
  /\ pc = "hand_complete" =>
       /\ simState.hand_over
       /\ simState.sim_phase \in {"hand_over", "showdown"}

C6_FoldedStaysOut ==
  \A i \in Seats(simState) :
    simState.players[i].folded =>
      /\ simState'.players[i].folded
      /\ simState'.players[i].total_invested = simState.players[i].total_invested
      /\ simState'.players[i].stack = simState.players[i].stack
      /\ ActorTurn => Actor # i

C6_TurnOrder == [](C6_Returned) /\ [][C6_FoldedStaysOut]_vars

\* the hero is asked to answer a bet on the turn after a villain folded
C6_Witness ==
  /\ pc = "hero_decision"
  /\ simState.street = "turn"
  /\ simState.sim_phase = "postflop_decision"
  /\ CurrentIdx = simState.hero_idx
  /\ simState.current_bet > simState.players[simState.hero_idx].street_invested
  /\ ActiveSet(simState) # Seats(simState)

(***************************************************************************)
(* C7: `check` is offered to the hero or chosen by a simulated villain     *)
(* only when that player owes nothing (current_bet equals the player's     *)
(* street_invested), and `call` only when the player owes chips            *)
(* (current_bet greater than street_invested).                             *)
(***************************************************************************)
Owes(state, i) == state.current_bet - state.players[i].street_invested

C7_Offered ==
  pc = "hero_decision" =>
    /\ "check" \in mwGetAvailableActions(simState) =>
         Owes(simState, simState.hero_idx) = 0
    /\ "call" \in mwGetAvailableActions(simState) =>
         Owes(simState, simState.hero_idx) > 0

C7_Played ==
  ActorTurn =>
    /\ Played(simState') = "check" => Owes(simState, Actor) = 0
    /\ Played(simState') = "call" => Owes(simState, Actor) > 0

C7_ValidActions == [](C7_Offered) /\ [][C7_Played]_vars

\* a villain has checked to the hero, who is offered a check in turn
C7_Witness ==
  /\ pc = "hero_decision"
  /\ simState.street = "flop"
  /\ "check" \in mwGetAvailableActions(simState)
  /\ simState.action_log # <<>>
  /\ Played(simState) = "check"
  /\ simState.action_log[1].actor # simState.hero_idx
  /\ Owes(simState, simState.hero_idx) = 0

(***************************************************************************)
(* C8: every call, bet or raise moves min(requested amount, the acting     *)
(* player's remaining stack) chips from that player's stack to the pot;    *)
(* every stack stays >= 0, the chips moved by an action are >= 0, and the  *)
(* pot never decreases during a hand.                                      *)
(***************************************************************************)
\* the bet level a bet or raise asks for, in the state it is made in
SizeTarget(state, action) ==
  IF state.street = "preflop"
  THEN IF state.last_raiser_idx = -1 THEN 25 * Tenth ELSE 80 * Tenth
  ELSE LET pct == CASE action = "bet_s" -> 33
                    [] action = "bet_m" -> 66
                    [] action = "bet_l" -> 100
                    [] OTHER -> 75
           ofPot == ((state.pot * pct + 50 * Tenth) \div (100 * Tenth)) * Tenth
       IN IF state.current_bet = 0 THEN ofPot
          ELSE Max(ofPot, (5 * state.current_bet) \div 2)

Requested(state, i, action) ==
  IF action = "call" THEN Owes(state, i)
  ELSE SizeTarget(state, action) - state.players[i].street_invested

C8_Step ==
  /\ simState'.pot >= simState.pot
  /\ (ActorTurn /\ Played(simState') \in Aggressive \cup {"call"}) =>
       LET moved == simState'.pot - simState.pot
           asked == Requested(simState, Actor, Played(simState'))
           before == simState.players[Actor]
           after == simState'.players[Actor]
       IN /\ moved = Min(asked, before.stack)
          /\ moved >= 0
          /\ after.stack = before.stack - moved
          /\ after.total_invested = before.total_invested + moved
          /\ after.street_invested = before.street_invested + moved
          /\ \A j \in Seats(simState) \ {Actor} :
               simState'.players[j] = simState.players[j]

C8_StacksNonNegative ==
  \A i \in Seats(simState) : simState.players[i].stack >= 0

C8_ClippedToStack == [](C8_StacksNonNegative) /\ [][C8_Step]_vars

\* a raise larger than the raiser's stack has just put that player all-in
C8_Witness ==
  /\ simState.action_log # <<>>
  /\ Played(simState) = "raise"
  /\ simState.action_log[1].amount > 0
  /\ simState.players[simState.action_log[1].actor].stack = 0
  /\ simState.street = "flop"
  /\ ~simState.hand_over
  /\ simState.current_bet < SizeTarget(simState, "raise")

(***************************************************************************)
(* C9: postflop, a raise made while facing a bet level B sets the raiser's *)
(* street_invested, and hence current_bet, to at least 2.5 x B unless it   *)
(* is clipped by the raiser's stack; preflop, the first raise of the hand  *)
(* sets current_bet to 2.5 big blinds and every later preflop raise sets   *)
(* it to 8.0 big blinds (unless clipped).                                  *)
(***************************************************************************)
C9_Step ==
  (ActorTurn /\ Played(simState') = "raise") =>
    LET B == simState.current_bet
        after == simState'.players[Actor]
        clipped == after.stack = 0
    IN /\ simState'.current_bet = after.street_invested
       /\ simState'.last_raiser_idx = Actor
       /\ ~clipped =>
            IF simState.street = "preflop"
            THEN IF B = BigBlind
                 THEN simState'.current_bet = 25 * Tenth
                 ELSE simState'.current_bet = 80 * Tenth
            ELSE (B > 0 /\ Owes(simState, Actor) > 0) =>
                   2 * simState'.current_bet >= 5 * B

C9_RaiseSizing == [][C9_Step]_vars

\* an unclipped postflop raise to exactly 2.5 x a bet of an odd number of
\* tenths, which is the only way to a bet level that is not a whole tenth
C9_Witness ==
  /\ simState.action_log # <<>>
  /\ Played(simState) = "raise"
  /\ simState.street # "preflop"
  /\ simState.players[simState.action_log[1].actor].stack > 0
  /\ simState.current_bet % Tenth # 0
  /\ pc = "mwRunUntilHero"

(***************************************************************************)
(* C10: generateMultiwayHand, for every n in 2..6 and every heroOffset,    *)
(* yields a preflop state with pot 1.5, current_bet 1.0, the SB player     *)
(* invested 0.5, the BB player 1.0 (stacks reduced accordingly), every     *)
(* other player invested 0, nobody folded, player 0 the hero, and an       *)
(* action_queue that is a permutation of all n indices beginning with the  *)
(* seat clockwise after the big blind and ending with the big blind.       *)
(***************************************************************************)
Posted(position) ==
  IF position = "SB" THEN 5 * Tenth
  ELSE IF position = "BB" THEN 10 * Tenth ELSE 0

C10_InitialState ==
  pc = "generated" =>
    LET n == simState.num_players
        P == simState.players
        q == simState.action_queue
    IN /\ DOMAIN P = 0..(n - 1)
       /\ simState.street = "preflop"
       /\ simState.board_visible = 0
       /\ simState.pot = 15 * Tenth
       /\ simState.current_bet = 10 * Tenth
       /\ ~simState.hand_over
       /\ simState.hero_idx = 0
       /\ \A i \in 0..(n - 1) :
            /\ P[i].is_hero = (i = 0)
            /\ ~P[i].folded
            /\ P[i].street_invested = Posted(P[i].position)
            /\ P[i].total_invested = Posted(P[i].position)
            /\ P[i].stack = StartStack * BigBlind - Posted(P[i].position)
       /\ Cardinality({i \in 0..(n - 1) : P[i].position = "SB"}) = 1
       /\ Cardinality({i \in 0..(n - 1) : P[i].position = "BB"}) = 1
       /\ Len(q) = n
       /\ Range(q) = 0..(n - 1)
       /\ P[q[n]].position = "BB"
       /\ q[1] = (q[n] + 1) % n
       /\ \A k \in 1..(n - 1) : q[k + 1] = (q[k] + 1) % n
       /\ simState.action_queue_pos = 0

\* a six-handed deal in which the hero is not in the blinds and does not
\* act first
C10_Witness ==
  /\ pc = "generated"
  /\ simState.num_players = 6
  /\ simState.players[0].position = "CO"
  /\ simState.action_queue[1] # 0
  /\ simState.players[simState.action_queue[6]].position = "BB"

(***************************************************************************)
(* C11: getMultiwayPostflopOrder(players, dealer) lists every non-folded   *)
(* player exactly once and no folded player, clockwise from the first      *)
(* non-folded seat after the dealer (the dealer, if still in the hand,     *)
(* last); every postflop street starts with action_queue equal to that     *)
(* order and action_queue_pos = 0.                                         *)
(***************************************************************************)
\* q lists the non-folded players of `state` exactly once, by increasing
\* clockwise distance from the seat after the dealer
IsPostflopOrder(q, state) ==
  LET n == state.num_players
      dist(i) == (i + n - state.dealer_player_idx - 1) % n
  IN /\ Range(q) = ActiveSet(state)
     /\ Len(q) = Cardinality(ActiveSet(state))
     /\ \A k \in 1..Len(q) : \A l \in 1..Len(q) :
          k < l => dist(q[k]) < dist(q[l])
     /\ state.dealer_player_idx \in ActiveSet(state)
          => q[Len(q)] = state.dealer_player_idx

C11_Function ==
  IsPostflopOrder(getMultiwayPostflopOrder(simState.players,
                                           simState.num_players,
                                           simState.dealer_player_idx),
                  simState)

C11_StreetStart ==
  simState'.street # simState.street
    => /\ IsPostflopOrder(simState'.action_queue, simState')
       /\ simState'.action_queue_pos = 0

C11_PostflopOrder == [](C11_Function) /\ [][C11_StreetStart]_vars

\* the turn has just started with a folded seat skipped and the dealer,
\* still in the hand, last in the queue
C11_Witness ==
  /\ simState.street = "turn"
  /\ simState.action_queue_pos = 0
  /\ simState.action_log[1].actor = SYSTEM
  /\ Len(simState.action_queue) < simState.num_players
  /\ Len(simState.action_queue) >= 2
  /\ simState.action_queue[Len(simState.action_queue)]
       = simState.dealer_player_idx

(***************************************************************************)
(* C12: observing a fold drives every weight of the range to 0:            *)
(* narrowPreflop(range, pos, 'fold', opener) and narrowPostflop(range,     *)
(* board, blocked, pos, 'fold', facing) set the weight of every key to 0,  *)
(* whatever the prior weights and the other arguments are, and leave the   *)
(* key set unchanged.                                                      *)
(***************************************************************************)
\* `after` has the keys of `before`, all of weight 0
IsZeroed(before, after) ==
  /\ DOMAIN after = DOMAIN before
  /\ \A key \in DOMAIN after : after[key] = ZERO

\* a fold applied to the range of the state, with any other arguments
C12_Function ==
  /\ \A villainPos \in TrackedPositions :
       \A openerPos \in TrackedPositions \cup {null} :
         IsZeroed(estimated_range,
                  narrowPreflop(estimated_range, villainPos, "fold",
                                openerPos))
  /\ \A c \in DOMAIN HandContexts : \A posLabel \in {"IP", "OOP"} :
       \A facingBet \in BOOLEAN : \A noise \in {0, NOISE} :
         IsZeroed(estimated_range,
                  narrowPostflop(estimated_range, HandContexts[c].board,
                                 Blocked(HandContexts[c]), posLabel, "fold",
                                 facingBet, noise))

\* a fold observed by the tracker
C12_Step ==
  observed'.action = "fold" => IsZeroed(estimated_range, estimated_range')

C12_FoldZeroes == [](C12_Function) /\ [][C12_Step]_vars

\* a fold facing a bet has been observed postflop, and the range has its
\* 169 keys, all of weight 0
C12_Witness ==
  /\ observed.fn = "narrowPostflop"
  /\ observed.action = "fold"
  /\ observed.facingBet
  /\ IsZeroed(initVillainRange(observed.position), estimated_range)

(***************************************************************************)
(* C13: narrowPreflop(range, pos, 'raise', no opener) replaces the         *)
(* distribution, whatever its prior weights, by the indicator of the       *)
(* opening range of pos (weight 1.0 for the keys of the range, 0 for the   *)
(* others; the range of BTN when pos has no opening range), so that        *)
(* getRangeStats(range).combos is exactly the size of that opening range;  *)
(* applying it a second time changes nothing.                              *)
(***************************************************************************)
\* the opening range the claim names for a position
OpeningRangeOf(position) ==
  IF position \in DOMAIN RFI_RANGES THEN RFI_RANGES[position]
  ELSE RFI_RANGES["BTN"]

\* the indicator of a set of keys, over the keys of a range
Indicator(range, keys) ==
  [key \in DOMAIN range |-> IF key \in keys THEN ONE ELSE ZERO]

\* an opening raise applied to the range of the state, for any position
C13_Function ==
  \A villainPos \in TrackedPositions :
    LET opened == narrowPreflop(estimated_range, villainPos, "raise", null)
    IN /\ opened = Indicator(estimated_range, OpeningRangeOf(villainPos))
       /\ getRangeStats(opened).combos
            = Cardinality(OpeningRangeOf(villainPos))
       /\ narrowPreflop(opened, villainPos, "raise", null) = opened

\* an opening raise observed by the tracker
C13_Step ==
  (/\ observed'.fn = "narrowPreflop"
   /\ observed'.action = "raise"
   /\ observed'.openerPos = null)
    => estimated_range'
         = Indicator(estimated_range, OpeningRangeOf(observed'.position))

C13_OpeningRaise == [](C13_Function) /\ [][C13_Step]_vars

\* the big blind, which has no opening range of its own, was seen to open
\* and now holds the opening range of BTN
C13_Witness ==
  /\ observed.fn = "narrowPreflop"
  /\ observed.action = "raise"
  /\ observed.openerPos = null
  /\ observed.position = "BB"
  /\ "BB" \notin DOMAIN RFI_RANGES
  /\ getRangeStats(estimated_range).combos = Cardinality(RFI_RANGES["BTN"])
  /\ \A key \in RFI_RANGES["BTN"] : estimated_range[key] = ONE

(***************************************************************************)
(* C14: narrowPreflop with action 'call' (resp. 'raise') against a known   *)
(* opener replaces the distribution by the indicator of the FACING_OPEN    *)
(* call set (resp. raise / 3-bet set) of the pair villainPos|openerPos;    *)
(* when FACING_OPEN has no table for the pair the distribution is returned *)
(* unchanged, weight for weight.                                           *)
(***************************************************************************)
\* the range the claim names for a call or a raise against an opener
FacingResult(range, villainPos, action, openerPos) ==
  LET pair == villainPos \o "|" \o openerPos
  IN IF pair \notin DOMAIN FACING_OPEN THEN range
     ELSE IF action = "call" THEN Indicator(range, FACING_OPEN[pair].call)
     ELSE Indicator(range, FACING_OPEN[pair].raise)

\* a call or a raise against any opener, applied to the range of the state
C14_Function ==
  \A villainPos \in TrackedPositions : \A openerPos \in TrackedPositions :
    \A action \in {"call", "raise"} :
      narrowPreflop(estimated_range, villainPos, action, openerPos)
        = FacingResult(estimated_range, villainPos, action, openerPos)

\* a call or a raise against an opener observed by the tracker
C14_Step ==
  (/\ observed'.fn = "narrowPreflop"
   /\ observed'.action \in {"call", "raise"}
   /\ observed'.openerPos # null)
    => estimated_range'
         = FacingResult(estimated_range, observed'.position,
                        observed'.action, observed'.openerPos)

C14_FacingOpen == [](C14_Function) /\ [][C14_Step]_vars

\* the big blind was seen to call an open of the button and holds the
\* call set of BB|BTN, which is not the 3-bet set; the pair BB|BB, of the
\* same position, has no table
C14_Witness ==
  /\ observed.fn = "narrowPreflop"
  /\ observed.action = "call"
  /\ observed.position = "BB"
  /\ observed.openerPos = "BTN"
  /\ estimated_range
       = Indicator(estimated_range, FACING_OPEN["BB|BTN"].call)
  /\ FACING_OPEN["BB|BTN"].call # FACING_OPEN["BB|BTN"].raise
  /\ "BB|BB" \notin DOMAIN FACING_OPEN

(***************************************************************************)
(* C15: after any non-fold narrowPostflop update that leaves at least one  *)
(* key with positive weight, the maximum weight over all keys is exactly   *)
(* 1.0 and every weight lies in [0, 1]; consequently, after any sequence   *)
(* of narrowing operations starting from initVillainRange, every weight of *)
(* the range is in [0, 1].                                                 *)
(***************************************************************************)
InUnitInterval(w) == ~FracLess(w, ZERO) /\ ~FracLess(ONE, w)

PositiveKeys(range) == {key \in DOMAIN range : FracLess(ZERO, range[key])}

C15_Weights ==
  \A key \in DOMAIN estimated_range : InUnitInterval(estimated_range[key])

C15_Step ==
  (/\ observed'.fn = "narrowPostflop"
   /\ observed'.action # "fold"
   /\ PositiveKeys(estimated_range') # {})
    => /\ \E key \in DOMAIN estimated_range' : estimated_range'[key] = ONE
       /\ \A key \in DOMAIN estimated_range' :
            InUnitInterval(estimated_range'[key])

FullyBlocked(blockedCards) ==
  {key \in Range(allHandKeys) :
     \A combo \in expandHandKey(key) :
       combo[1] \in blockedCards \/ combo[2] \in blockedCards}

C16_Step ==
  observed'.fn = "narrowPostflop"
    => /\ observed'.action # "fold"
            => PositiveKeys(estimated_range')
                 = PositiveKeys(estimated_range)
                     \ FullyBlocked(Blocked(HandContexts[observed'.context]))
       /\ \A key \in DOMAIN estimated_range :
            estimated_range[key] = ZERO => estimated_range'[key] = ZERO

C16_NoHandZeroed == [][C16_Step]_vars

\* the texture of the board the tracker saw last
ObservedTexture == classifyTexture(HandContexts[observed.context].board)

\* the mean strategy probability of the observed action over the unblocked
\* combinations of a key
ObservedAvg(key) ==
  avgGtoProb(TabulatedBuckets[observed.context][key], ObservedTexture,
             PosLabel(observed.position), observed.action,
             observed.facingBet)

\* without noise, an action was observed that the strategy never takes with
\* some unblocked hand of the range, and that hand still has positive weight
C16_Witness ==
  /\ observed.fn = "narrowPostflop"
  /\ observed.action # "fold"
  /\ HandContexts[observed.context].noise = 0
  /\ \E key \in PositiveKeys(estimated_range) : ObservedAvg(key) = ZERO

(***************************************************************************)
(* C17: in narrowPostflop a key all of whose concrete card combinations (6 *)
(* for a pair, 4 suited, 12 offsuit) contain a blocked card gets weight 0  *)
(* without raising an error, and a key with at least one unblocked         *)
(* combination is scored over exactly its unblocked combinations and keeps *)
(* a positive weight.                                                      *)
(***************************************************************************)
\* the combinations of a key that hold no blocked card
Unblocked(key, blockedCards) ==
  {combo \in expandHandKey(key) :
     {combo[1], combo[2]} \cap blockedCards = {}}

\* expandHandKey gives 6, 4 or 12 pairs of distinct cards of the deck
C17_Combos ==
  \A key \in Range(allHandKeys) :
    /\ Cardinality(expandHandKey(key))
         = (IF Len(key) = 2 THEN 6
            ELSE IF KeyChars[key][3] = "s" THEN 4 ELSE 12)
    /\ \A combo \in expandHandKey(key) :
         /\ combo[1] \in createDeck
         /\ combo[2] \in createDeck
         /\ combo[1] # combo[2]

\* the combinations that are scored are the unblocked ones
C17_Scored ==
  \A c \in DOMAIN HandContexts : \A key \in Range(allHandKeys) :
    DOMAIN comboBuckets(key, HandContexts[c].board, Blocked(HandContexts[c]),
                        classifyTexture(HandContexts[c].board))
      = Unblocked(key, Blocked(HandContexts[c]))

\* for the blocked cards of every context, whether a key has no unblocked
\* combination
NoneUnblocked ==
  [c \in DOMAIN HandContexts |->
     [key \in Range(allHandKeys) |->
        Unblocked(key, Blocked(HandContexts[c])) = {}] @@ << >>] @@ << >>

C17_Step ==
  (observed'.fn = "narrowPostflop" /\ observed'.action # "fold")
    => \A key \in PositiveKeys(estimated_range) :
         IF NoneUnblocked[observed'.context][key]
         THEN estimated_range'[key] = ZERO
         ELSE FracLess(ZERO, estimated_range'[key])

C17_BlockedCombos == [](C17_Combos /\ C17_Scored) /\ [][C17_Step]_vars

\* on the board 9s 9h 3d with 9d known, the pair of nines of the opening
\* range has all six combinations blocked and weight 0, while a key with
\* some combinations blocked and some not has positive weight
C17_Witness ==
  /\ observed.fn = "narrowPostflop"
  /\ observed.action # "fold"
  /\ Unblocked("99", Blocked(HandContexts[observed.context])) = {}
  /\ initVillainRange(observed.position)["99"] = ONE
  /\ estimated_range["99"] = ZERO
  /\ \E key \in PositiveKeys(estimated_range) :
       LET left == Unblocked(key, Blocked(HandContexts[observed.context]))
       IN left # {} /\ left # expandHandKey(key)

(***************************************************************************)
(* C18: for every key with an unblocked combination and every observed     *)
(* non-fold action (check, bet_s, bet_m, bet_l, call, raise),              *)
(* narrowPostflop multiplies the weight of the key by                      *)
(* max(effective, 0.001), where effective is                               *)
(* (1 - noise) * avg + noise * (1 / k), avg is the mean, over the          *)
(* unblocked combinations of the key, of the looked-up strategy            *)
(* probability of the observed action, and k is the number of alternative  *)
(* actions of the situation (3 when facing a bet, 2 otherwise).            *)
(* The product is the weight before the rescaling by the largest weight.   *)
(***************************************************************************)
\* the actions a noisy villain draws from, and their number k
AlternativeActions(facingBet) ==
  IF facingBet THEN {"call", "fold", "raise"} ELSE {"check", "bet_m"}

\* the range that results when every key with positive weight and an
\* unblocked combination is multiplied by
\* max((1 - noise) * avg + noise * uniform, 0.001), the other keys go to 0,
\* and the weights are divided by the largest of them
BlendedUpdate(range, c, position, action, facingBet, uniform) ==
  LET noise == HandContexts[c].noise
      texture == classifyTexture(HandContexts[c].board)
      avg(key) == avgGtoProb(TabulatedBuckets[c][key], texture,
                             PosLabel(position), action, facingBet)
      effective(key) ==
        FracAdd(FracMul(Frac(100 - noise, 100), avg(key)),
                FracMul(Frac(noise, 100), uniform))
      product == [key \in DOMAIN range |->
                    IF range[key] = ZERO \/ NoneUnblocked[c][key] THEN ZERO
                    ELSE FracMul(range[key],
                                 FracMax(effective(key), Frac(1, 1000)))]
                   @@ << >>
      products == {product[key] : key \in DOMAIN range}
      largest == CHOOSE w \in products : \A v \in products : ~FracLess(w, v)
  IN [key \in DOMAIN range |->
        IF product[key] = ZERO THEN ZERO
        ELSE FracDiv(product[key], largest)]

\* the claim as it is worded: the uniform term is 1 / k for every action
C18_AsWorded ==
  (observed'.fn = "narrowPostflop" /\ observed'.action # "fold")
    => estimated_range'
         = BlendedUpdate(estimated_range, observed'.context,
             observed'.position, observed'.action, observed'.facingBet,
             Frac(1, Cardinality(AlternativeActions(observed'.facingBet))))

C18_Step ==
  (observed'.fn = "narrowPostflop" /\ observed'.action # "fold")
    => estimated_range'
         = BlendedUpdate(estimated_range, observed'.context,
             observed'.position, observed'.action, observed'.facingBet,
             IF observed'.action \in AlternativeActions(observed'.facingBet)
             THEN Frac(1,
                    Cardinality(AlternativeActions(observed'.facingBet)))
             ELSE ZERO)

CanonicalKeys ==
  {RANKS[i] \o RANKS[i] : i \in 1..13}
    \cup {RANKS[p[1]] \o RANKS[p[2]] \o kind :
            p \in {q \in (1..13) \X (1..13) : q[1] > q[2]},
            kind \in {"s", "o"}}

C19_Created ==
  \A position \in TrackedPositions :
    /\ DOMAIN initVillainRange(position) = CanonicalKeys
    /\ \A key \in CanonicalKeys :
         initVillainRange(position)[key]
           = (IF key \in OpeningRangeOf(position) THEN ONE ELSE ZERO)

C19_Keys ==
  /\ Cardinality(CanonicalKeys) = 169
  /\ DOMAIN estimated_range = CanonicalKeys

C19_Step == DOMAIN estimated_range' = DOMAIN estimated_range

C19_AllKeysPresent == [](C19_Created /\ C19_Keys) /\ [][C19_Step]_vars

\* after a postflop observation that zeroed some hands and kept others, the
\* range still has its 169 keys
C19_Witness ==
  /\ observed.fn = "narrowPostflop"
  /\ observed.updates = 1
  /\ Cardinality(DOMAIN estimated_range) = 169
  /\ PositiveKeys(estimated_range) # {}
  /\ \E key \in DOMAIN estimated_range :
       /\ estimated_range[key] = ZERO
       /\ initVillainRange(observed.position)[key] = ONE

(***************************************************************************)
(* C20: getStrategy always produces a playable distribution: for every     *)
(* (position, texture, bucket, facingBet) input, including textures or     *)
(* buckets that are in no table, it returns a non-empty map from actions   *)
(* to probabilities and never fails; a missing key yields {check: 1.0}     *)
(* when not facing a bet and {fold: 0.5, call: 0.5} when facing one; and   *)
(* an entry of the equilibrium file that is present but empty never        *)
(* replaces the default entry.                                             *)
(***************************************************************************)
\* the table a call reads and the key it reads there
TableRead(call) ==
  IF call.facingBet THEN strategyTables.FACING_BET
  ELSE IF call.position = "OOP" THEN strategyTables.OOP_STRATEGY
  ELSE strategyTables.IP_VS_CHECK

KeyRead(call) ==
  IF call.facingBet THEN call.texture \o "|" \o call.bucket
  ELSE call.position \o "|" \o call.texture \o "|" \o call.bucket

\* the section of the file a call is about, and the default of its bucket
SectionRead(call) ==
  IF call.facingBet THEN "FACING_BET" ELSE call.position

DefaultRead(call) ==
  IF call.facingBet THEN _FB_DEFAULTS[call.bucket]
  ELSE IF call.position = "OOP" THEN _OOP_DEFAULTS[call.bucket]
  ELSE _IP_DEFAULTS[call.bucket]

\* the file has an entry for the call, and the entry has no action
HasEmptyEntry(call) ==
  /\ HasStrategies(strategiesData)
  /\ SectionRead(call) \in DOMAIN StrategiesOf(strategiesData)
  /\ call.texture \in DOMAIN StrategiesOf(strategiesData)[SectionRead(call)]
  /\ call.bucket
       \in DOMAIN StrategiesOf(strategiesData)[SectionRead(call)][call.texture]
  /\ DOMAIN StrategiesOf(strategiesData)[SectionRead(call)][call.texture]
              [call.bucket] = {}

C20_Returned ==
  pc = "getStrategy"
    => /\ DOMAIN strategy # {}
       /\ \A action \in DOMAIN strategy : strategy[action] \in 0..100
       /\ KeyRead(observed) \notin DOMAIN TableRead(observed)
            => strategy = (IF observed.facingBet
                           THEN [fold |-> 50, call |-> 50]
                           ELSE [check |-> 100])
       /\ (HasEmptyEntry(observed) /\ observed.bucket \in Range(_BUCKETS)
             /\ observed.texture \in Range(TEXTURES))
            => strategy = DefaultRead(observed)

\* no entry of a table is empty once the file has been loaded
C20_Tables ==
  pc # "import"
    => \A name \in DOMAIN strategyTables :
         \A key \in DOMAIN strategyTables[name] :
           DOMAIN strategyTables[name][key] # {}

C20_PlayableStrategy == C20_Returned /\ C20_Tables

\* the file holds an empty entry for OOP|low_dry|nut, and getStrategy
\* returned the default of the bucket for that key
C20_Witness ==
  /\ pc = "getStrategy"
  /\ HasEmptyEntry(observed)
  /\ KeyRead(observed) = "OOP|low_dry|nut"
  /\ strategy = [check |-> 20, bet_m |-> 30, bet_l |-> 50]

(***************************************************************************)
(* C21: getCorrectActions(strategy) returns only the highest-probability   *)
(* action when that probability is >= 0.50; otherwise it returns the       *)
(* highest-probability action plus the second-highest action if and only   *)
(* if the second probability is >= 0.25; for every distribution produced   *)
(* by getStrategy the result has one or two entries and always contains an *)
(* action of maximal probability.                                          *)
(***************************************************************************)
\* the highest probability of a strategy, and the highest among the
\* entries other than one action (0 when there is no other entry)
BestProb(strat) == MaxOf({strat[a] : a \in DOMAIN strat})

SecondProb(strat, best) ==
  MaxOf({strat[a] : a \in DOMAIN strat \ {best}} \cup {0})

C22_FlopTexture ==
  observed.fn = "mwVillainAct"
    => observed.texture = classifyTexture(SubSeq(simState.board_strs, 1, 3))

(***************************************************************************)
(* C23: classifyTexture on any 3 distinct cards, in any order, returns     *)
(* exactly one of the 8 textures, by the first rule that matches: three    *)
(* cards of one suit -> monotone; a repeated rank -> paired; the largest   *)
(* gap between the sorted ranks at most 2 -> wet_connected; some suit      *)
(* twice -> wet_twotone; otherwise by the highest rank: an ace ->          *)
(* high_dry_A, a king or a queen -> high_dry_K, a nine to a jack ->        *)
(* medium_dry, lower -> low_dry.                                           *)
(***************************************************************************)
\* the rules as stated, on the set of the cards (no order is read)
C23_Suited(cards, n) ==
  \E s \in Range(SUITS) : Cardinality({c \in cards : suitChar(c) = s}) >= n

C23_Gap(cards) ==
  LET ranks == {rankInt(c) : c \in cards}
      adjacent == {pair \in ranks \X ranks :
                     /\ pair[1] < pair[2]
                     /\ ~ \E m \in ranks : pair[1] < m /\ m < pair[2]}
  IN MaxOf({pair[2] - pair[1] : pair \in adjacent} \cup {0})

C23_FirstMatch(cards) ==
  LET ranks == {rankInt(c) : c \in cards}
      highest == MaxOf(ranks)
  IN IF C23_Suited(cards, 3) THEN "monotone"
     ELSE IF Cardinality(ranks) < Cardinality(cards) THEN "paired"
     ELSE IF C23_Gap(cards) <= 2 THEN "wet_connected"
     ELSE IF C23_Suited(cards, 2) THEN "wet_twotone"
     ELSE IF RANKS[highest + 1] = "A" THEN "high_dry_A"
     ELSE IF RANKS[highest + 1] \in {"K", "Q"} THEN "high_dry_K"
     ELSE IF RANKS[highest + 1] \in {"9", "T", "J"} THEN "medium_dry"
     ELSE "low_dry"

C24_Buckets ==
  {"premium", "nut", "strong", "two_pair", "top_pair", "overpair",
   "mid_pair", "underpair", "nut_draw", "draw", "weak_made", "gutshot",
   "air"}

C24_RankClass == getRankClass(simState.hand_strs \o simState.board_strs)

C24_Bucket ==
  pc = "classifyHand"
    => /\ returned \in C24_Buckets
       /\ C24_RankClass <= 3 => returned = "premium"
       /\ C24_RankClass = 9
            => returned \notin {"overpair", "top_pair", "two_pair"}

(***************************************************************************)
(* C25: the session log is append-only: every completed hand appends       *)
(* exactly one record to session_log (mwEndHand), the log is carried into  *)
(* the next hand, and its records are never modified, reordered or         *)
(* removed; after k hands it holds k records, in the order of the hands.   *)
(***************************************************************************)
\* the hands completed so far
C25_Completed ==
  simState.hand_number - 1 + (IF simState.hand_over THEN 1 ELSE 0)

C25_Log ==
  /\ Len(simState.session_log) = C25_Completed
  /\ \A k \in 1..Len(simState.session_log) :
       simState.session_log[k].hand_num = k

C25_Step ==
  /\ Len(simState'.session_log) >= Len(simState.session_log)
  /\ SubSeq(simState'.session_log, 1, Len(simState.session_log))
       = simState.session_log
  /\ Len(simState'.session_log) =
       Len(simState.session_log)
         + (IF ~simState.hand_over /\ simState'.hand_over THEN 1 ELSE 0)

C25_AppendOnly == [](C25_Log) /\ [][C25_Step]_vars

\* the second hand of a session is over, with another result than the first
C25_Witness ==
  /\ simState.hand_number = 2
  /\ simState.hand_over
  /\ Len(simState.session_log) = 2
  /\ simState.session_log[1].result_bb > 0
  /\ simState.session_log[2].result_bb < 0

(***************************************************************************)
(* C26: computeSessionReview on an empty log returns the all-zero / empty  *)
(* result; on a non-empty log hands_played is the number of records,       *)
(* total_pl is the sum of their results, and top_mistakes lists the five   *)
(* highest-deviation action records of the whole log (all of them when     *)
(* fewer than five actions deviate), in non-increasing order of deviation, *)
(* without modifying the log.                                              *)
(*                                                                         *)
(* As worded, an action deviates when its deviation is not 0.  The code    *)
(* lists an action only when its deviation is above 0.3; the amended       *)
(* statement counts those actions.                                         *)
(***************************************************************************)
\* the action records of the log with a deviation above the threshold, in
\* the form of the entries of top_mistakes
C26_Deviating(sessionLog, threshold) ==
  {[hand_num |-> sessionLog[h].hand_num,
    hero_hand |-> sessionLog[h].hero_hand_key,
    street |-> sessionLog[h].actions[k].street,
    hero_action |-> sessionLog[h].actions[k].action,
    gto_action |-> sessionLog[h].actions[k].gto_action,
    deviation |-> sessionLog[h].actions[k].deviation] :
     <<h, k>> \in {p \in (1..Len(sessionLog)) \X (1..4) :
                     /\ p[2] <= Len(sessionLog[p[1]].actions)
                     /\ sessionLog[p[1]].actions[p[2]].deviation > threshold}}

C26_Sum(sessionLog) ==
  SumOver([k \in 0..(Len(sessionLog) - 1) |-> sessionLog[k + 1].result_bb],
          Len(sessionLog))

C26_Review(threshold) ==
  pc = "renderSessionReview"
    => LET sessionLog == simState.session_log
           deviating == C26_Deviating(sessionLog, threshold)
           listed == returned.top_mistakes
       IN IF sessionLog = <<>>
          THEN returned = [total_pl |-> 0, hands_played |-> 0,
                           bb_per_hand |-> 0, biggest_win |-> 0,
                           biggest_loss |-> 0, top_mistakes |-> <<>>]
          ELSE /\ returned.hands_played = Len(sessionLog)
               /\ returned.total_pl = C26_Sum(sessionLog)
               /\ Len(listed) = Min(5, Cardinality(deviating))
               /\ Cardinality(Range(listed)) = Len(listed)
               /\ Range(listed) \subseteq deviating
               /\ \A k \in 1..(Len(listed) - 1) :
                    listed[k].deviation >= listed[k + 1].deviation
               /\ \A other \in deviating \ Range(listed) :
                    \A k \in 1..Len(listed) :
                      other.deviation <= listed[k].deviation

\* the review leaves the log as it was
C26_LogKept ==
  pc' = "renderSessionReview" => simState' = simState

C27_OpenerRecorded ==
  (simState.street = "preflop" /\ simState.last_raiser_idx >= 0)
    => /\ simState.opener_idx \in 0..(simState.num_players - 1)
       /\ mwOpenerPos(simState) # null

(***************************************************************************)
(* C28: every multiway hand terminates: from the state returned by         *)
(* generateMultiwayHand, if the hero always eventually picks one of the    *)
(* offered actions and each villain picks any action its policy can        *)
(* return, the hand reaches hand_over = true after finitely many actions;  *)
(* the villain loop of mwRunUntilHero always ends and no betting round     *)
(* admits an unbounded number of raises.                                   *)
(***************************************************************************)
C28_Terminates == <>(simState.hand_over)

(***************************************************************************)
(* C29: in every reachable state of a multiway hand before the pot is      *)
(* distributed, the pot equals the sum of total_invested over all players  *)
(* (folded players included), each player's stack plus total_invested      *)
(* equals that player's starting stack, and street_invested is at most     *)
(* total_invested for every player.                                        *)
(***************************************************************************)
C29_Invested(state) ==
  SumOver([i \in Seats(state) |-> state.players[i].total_invested],
          state.num_players)

C29_ChipsAccounted ==
  ~simState.hand_over
    => /\ simState.pot = C29_Invested(simState)
       /\ \A i \in Seats(simState) :
            /\ simState.players[i].stack + simState.players[i].total_invested
                 = Stacks(simState.num_players)[i]
            /\ simState.players[i].street_invested
                 <= simState.players[i].total_invested

\* on the turn of a three-player hand one player has folded after putting
\* chips in, and another is all-in
C29_Witness ==
  /\ ~simState.hand_over
  /\ simState.street = "turn"
  /\ simState.num_players = 3
  /\ \E i \in Seats(simState) :
       /\ simState.players[i].folded
       /\ simState.players[i].total_invested > BigBlind
  /\ \E i \in Seats(simState) :
       /\ ~simState.players[i].folded
       /\ simState.players[i].stack = 0
  /\ simState.pot = C29_Invested(simState)

(***************************************************************************)
(* C30: every bet or raise applied by mwApplyAction whose amount is not    *)
(* clipped by the acting player's stack puts a strictly positive number of *)
(* chips into the pot and leaves current_bet strictly greater than it was  *)
(* before the action, on every street including preflop re-raises: action  *)
(* is never re-opened by a raise that does not raise the bet level.        *)
(***************************************************************************)
\* the actor keeps chips behind, so the stack did not clip the amount
C30_Step ==
  (/\ ActorTurn
   /\ Played(simState') \in Aggressive
   /\ simState'.players[Actor].stack > 0)
    => /\ simState'.pot > simState.pot
       /\ simState'.current_bet > simState.current_bet

C30_RaiseRaisesTheBet == [][C30_Step]_vars

====
